---- MODULE Spec2Model ----
(***************************************************************************)
(* Resilient Task Orchestration Engine of SimpleClaw.                      *)
(*                                                                         *)
(* Texts (error messages, delegate outputs, user-visible messages) are     *)
(* sequences of one-character strings, so that Python's substring test,    *)
(* lower(), strip(), slicing and len() are computed as the code computes   *)
(* them.  A character outside ASCII is written as one ASCII character     *)
(* (a for a-tilde, c for c-cedilla, v for the check mark, ...), so every   *)
(* text keeps its length.                                                  *)
(***************************************************************************)
EXTENDS Integers, Sequences, FiniteSets, TLC

(***************************************************************************)
(* Bounds of the model.                                                    *)
(***************************************************************************)
\* number of consecutive execute() calls served by one TaskExecutor
MaxRuns == 2

(***************************************************************************)
(* Python text primitives.                                                 *)
(***************************************************************************)
\* Python's None, where a text is expected
None == <<"None">>

\* Python's None, where an ErrorSeverity is expected
NoSeverity == "none"

UpperAlpha ==
    <<"A","B","C","D","E","F","G","H","I","J","K","L","M",
      "N","O","P","Q","R","S","T","U","V","W","X","Y","Z">>

LowerAlpha ==
    <<"a","b","c","d","e","f","g","h","i","j","k","l","m",
      "n","o","p","q","r","s","t","u","v","w","x","y","z">>

LowerOf == [c \in {UpperAlpha[i] : i \in 1..Len(UpperAlpha)} |->
               LowerAlpha[CHOOSE i \in 1..Len(UpperAlpha) : UpperAlpha[i] = c]]

\* str.lower() on one character
LowerChar(c) == IF c \in DOMAIN LowerOf THEN LowerOf[c] ELSE c

\* str.lower()
Lower(t) == SubSeq([i \in 1..Len(t) |-> LowerChar(t[i])], 1, Len(t))

\* s in t  (substring test)
Contains(t, s) ==
    \/ s = <<>>
    \/ \E i \in 1..(Len(t) - Len(s) + 1) :
         t[i] = s[1] /\ SubSeq(t, i, i + Len(s) - 1) = s

\* t[:n]
Prefix(t, n) == IF Len(t) <= n THEN t ELSE SubSeq(t, 1, n)

Whitespace == {" ", "\n", "\t", "\r"}

\* str.lstrip()
RECURSIVE LStrip(_)
LStrip(t) ==
    IF t = <<>> THEN t
    ELSE IF Head(t) \in Whitespace THEN LStrip(Tail(t)) ELSE t

\* str.rstrip()
RECURSIVE RStrip(_)
RStrip(t) ==
    IF t = <<>> THEN t
    ELSE IF t[Len(t)] \in Whitespace THEN RStrip(SubSeq(t, 1, Len(t) - 1)) ELSE t

\* str.strip()
Strip(t) == RStrip(LStrip(t))

Digits == <<"0","1","2","3","4","5","6","7","8","9">>

\* str(n) for a natural number
RECURSIVE IntToText(_)
IntToText(n) ==
    IF n < 10 THEN <<Digits[n + 1]>>
    ELSE IntToText(n \div 10) \o <<Digits[(n % 10) + 1]>>

\* sep.join(lines)
RECURSIVE Join(_, _)
Join(lines, sep) ==
    IF lines = <<>> THEN <<>>
    ELSE IF Len(lines) = 1 THEN lines[1]
    ELSE lines[1] \o sep \o Join(Tail(lines), sep)

\* [f(x) for x in seq if keep(x)] building blocks
RECURSIVE SelectSteps(_, _)
SelectSteps(steps, flag) ==
    IF steps = <<>> THEN <<>>
    ELSE IF steps[1].success = flag
         THEN <<steps[1]>> \o SelectSteps(Tail(steps), flag)
         ELSE SelectSteps(Tail(steps), flag)

NL == <<"\n">>

(***************************************************************************)
(* State machine: TaskState and the transition table.                      *)
(***************************************************************************)
IDLE == "idle"
ANALYZING == "analyzing"
PLANNING == "planning"
EXECUTING == "executing"
VERIFYING == "verifying"
COMPLETED == "completed"
FAILED == "failed"
ROLLING_BACK == "rolling_back"
RECOVERING == "recovering"
ESCALATED == "escalated"

TaskState ==
    {IDLE, ANALYZING, PLANNING, EXECUTING, VERIFYING, COMPLETED,
     FAILED, ROLLING_BACK, RECOVERING, ESCALATED}

\* a table that does not let a recovering task plan again
VALID_TRANSITIONS_no_replan(s) ==
    CASE s = IDLE         -> {ANALYZING}
      [] s = ANALYZING    -> {PLANNING, FAILED}
      [] s = PLANNING     -> {EXECUTING, FAILED}
      [] s = EXECUTING    -> {VERIFYING, FAILED}
      [] s = VERIFYING    -> {COMPLETED, ROLLING_BACK}
      [] s = ROLLING_BACK -> {RECOVERING, FAILED}
      [] s = RECOVERING   -> {ESCALATED}
      [] s = FAILED       -> {RECOVERING, ESCALATED}
      [] s = ESCALATED    -> {IDLE}
      [] s = COMPLETED    -> {IDLE}
      [] OTHER            -> {}

\* VALID_TRANSITIONS[s]
VALID_TRANSITIONS(s) ==
    CASE s = IDLE         -> {ANALYZING}
      [] s = ANALYZING    -> {PLANNING, FAILED}
      [] s = PLANNING     -> {EXECUTING, FAILED}
      [] s = EXECUTING    -> {VERIFYING, FAILED}
      [] s = VERIFYING    -> {COMPLETED, ROLLING_BACK}
      [] s = ROLLING_BACK -> {RECOVERING, FAILED}
      [] s = RECOVERING   -> {PLANNING, ESCALATED}
      [] s = FAILED       -> {RECOVERING, ESCALATED}
      [] s = ESCALATED    -> {IDLE}
      [] s = COMPLETED    -> {IDLE}
      [] OTHER            -> {}

(***************************************************************************)
(* Error classification.                                                   *)
(***************************************************************************)
TRANSIENT == "transient"
RECOVERABLE == "recoverable"
SEVERE == "severe"
CRITICAL == "critical"

ErrorSeverity == {TRANSIENT, RECOVERABLE, SEVERE, CRITICAL}

transient_signals ==
    { <<"t","i","m","e","o","u","t">>,
      <<"t","i","m","e","d"," ","o","u","t">>,
      <<"r","a","t","e"," ","l","i","m","i","t">>,
      <<"4","2","9">>,
      <<"5","0","3">>,
      <<"c","o","n","n","e","c","t","i","o","n"," ","r","e","s","e","t">>,
      <<"b","r","o","k","e","n"," ","p","i","p","e">>,
      <<"t","e","m","p","o","r","a","r","y">> }

recoverable_signals ==
    { <<"a","d","d","r","e","s","s"," ","a","l","r","e","a","d","y"," ","i","n"," ","u",
      "s","e">>,
      <<"p","o","r","t">>,
      <<"a","l","r","e","a","d","y"," ","e","x","i","s","t","s">>,
      <<"p","e","r","m","i","s","s","i","o","n"," ","d","e","n","i","e","d">>,
      <<"n","o"," ","s","u","c","h"," ","f","i","l","e">>,
      <<"n","o","t"," ","f","o","u","n","d">>,
      <<"m","i","s","s","i","n","g">>,
      <<"d","e","p","e","n","d","e","n","c","y">>,
      <<"m","o","d","u","l","e">>,
      <<"i","m","p","o","r","t">>,
      <<"c","o","u","l","d"," ","n","o","t"," ","c","o","n","n","e","c","t">>,
      <<"c","o","n","n","e","c","t","i","o","n"," ","r","e","f","u","s","e","d">> }

severe_signals ==
    { <<"c","o","r","r","u","p","t">>,
      <<"i","n","t","e","g","r","i","t","y">>,
      <<"f","o","r","e","i","g","n"," ","k","e","y">>,
      <<"c","o","n","s","t","r","a","i","n","t">>,
      <<"d","e","a","d","l","o","c","k">>,
      <<"s","e","r","i","a","l","i","z","a","t","i","o","n">>,
      <<"o","u","t"," ","o","f"," ","m","e","m","o","r","y">>,
      <<"d","i","s","k"," ","f","u","l","l">> }


\* classify_error with the severe signals tested before the recoverable ones
classify_error_severe_first(error) ==
    LET msg == Lower(error)
    IN  IF \E s \in transient_signals : Contains(msg, s) THEN TRANSIENT
        ELSE IF \E s \in severe_signals : Contains(msg, s) THEN SEVERE
        ELSE IF \E s \in recoverable_signals : Contains(msg, s) THEN RECOVERABLE
        ELSE RECOVERABLE

\* classify_error that answers Critical where the code answers Severe
classify_error_critical(error) ==
    LET msg == Lower(error)
    IN  IF \E s \in transient_signals : Contains(msg, s) THEN TRANSIENT
        ELSE IF \E s \in recoverable_signals : Contains(msg, s) THEN RECOVERABLE
        ELSE IF \E s \in severe_signals : Contains(msg, s) THEN CRITICAL
        ELSE RECOVERABLE

\* classify_error(error): error is str(error)
classify_error(error) ==
    LET msg == Lower(error)
    IN  IF \E s \in transient_signals : Contains(msg, s) THEN TRANSIENT
        ELSE IF \E s \in recoverable_signals : Contains(msg, s) THEN RECOVERABLE
        ELSE IF \E s \in severe_signals : Contains(msg, s) THEN SEVERE
        ELSE RECOVERABLE

(***************************************************************************)
(* StepResult and TaskContext.                                             *)
(***************************************************************************)
\* default of TaskContext.max_recoveries
max_recoveries == 3

\* str(error)[:200], str(e)[:200]
ErrorMsgLimit == 200

\* StepResult(step_name, success, output, error, fallback_used)
StepResult(step_name, success, output, error, fallback_used) ==
    [step_name |-> step_name, success |-> success, output |-> output,
     error |-> error, fallback_used |-> fallback_used]

\* a TaskContext that starts with the recovery attempts used up
TaskContext_exhausted(task_id) ==
    [task_id |-> task_id, state |-> IDLE, steps_completed |-> <<>>,
     recovery_attempts |-> max_recoveries, last_error |-> None,
     last_severity |-> NoSeverity, final_output |-> <<>>]

\* TaskContext(task_id, ...)
TaskContext(task_id) ==
    [task_id |-> task_id, state |-> IDLE, steps_completed |-> <<>>,
     recovery_attempts |-> 0, last_error |-> None, last_severity |-> NoSeverity,
     final_output |-> <<>>]

\* TaskContext.transition without the table lookup
transition_unchecked(c, to_state) ==
    [ok |-> TRUE, ctx |-> [c EXCEPT !.state = to_state]]

\* TaskContext.transition(to_state): ok = FALSE stands for raising
\* InvalidTransition, which leaves the context as it is
transition(c, to_state) ==
    IF to_state \notin VALID_TRANSITIONS(c.state)
    THEN [ok |-> FALSE, ctx |-> c]
    ELSE [ok |-> TRUE, ctx |-> [c EXCEPT !.state = to_state]]

\* TaskContext.add_step_result(result)
add_step_result(c, r) ==
    [c EXCEPT !.steps_completed = Append(@, r)]

TxtCheck ==
    <<"v"," ">>

TxtCross ==
    <<"x"," ">>

TxtAlternativa ==
    <<" ","(","a","l","t","e","r","n","a","t","i","v","a",":"," ">>

TxtCloseParen ==
    <<")">>

TxtNenhumaEtapa ==
    <<"N","e","n","h","u","m","a"," ","e","t","a","p","a"," ","c","o","n","c","l","u",
      "i","d","a"," ","a","i","n","d","a",".">>

\* one line of the progress summary
ProgressLine(s) ==
    IF s.success
    THEN TxtCheck \o s.step_name \o
         (IF s.fallback_used # None /\ s.fallback_used # <<>>
          THEN TxtAlternativa \o s.fallback_used \o TxtCloseParen ELSE <<>>)
    ELSE TxtCross \o s.step_name

\* TaskContext.get_progress_summary()
get_progress_summary(c) ==
    LET completed == SelectSteps(c.steps_completed, TRUE)
        failed    == SelectSteps(c.steps_completed, FALSE)
        lines     == [i \in 1..Len(completed) |-> ProgressLine(completed[i])]
                     \o [i \in 1..Len(failed) |-> ProgressLine(failed[i])]
    IN  IF lines # <<>> THEN Join(lines, NL) ELSE TxtNenhumaEtapa

TxtAnalise ==
    <<"A","n","a","l","i","s","e"," ","d","e"," ","r","e","q","u","i","s","i","t","o",
      "s">>

TxtSpecGerada ==
    <<"S","p","e","c"," ","g","e","r","a","d","a">>

TxtPlanejamento ==
    <<"P","l","a","n","e","j","a","m","e","n","t","o">>

TxtExecucaoTentativa ==
    <<"E","x","e","c","u","c","a","o"," ","(","t","e","n","t","a","t","i","v","a"," ">>

TxtPlanoAlternativo ==
    <<"p","l","a","n","o"," ","a","l","t","e","r","n","a","t","i","v","o">>

\* f"Execução (tentativa {attempt})"
ExecStepName(k) == TxtExecucaoTentativa \o IntToText(k) \o TxtCloseParen

(***************************************************************************)
(* Escalation message.                                                     *)
(***************************************************************************)
TxtErroDesconhecido ==
    <<"E","r","r","o"," ","d","e","s","c","o","n","h","e","c","i","d","o">>

TxtPreciso ==
    <<"!","!"," ","P","r","e","c","i","s","o"," ","d","a"," ","s","u","a"," ","a","j",
      "u","d","a"," ","p","a","r","a"," ","c","o","n","t","i","n","u","a","r",".","\n">>

TxtProblema ==
    <<"*","P","r","o","b","l","e","m","a",":","*"," ">>

TxtProgresso ==
    <<"*","P","r","o","g","r","e","s","s","o"," ","a","t","e"," ","a","g","o","r","a",
      ":","*","\n">>

TxtSugestoes ==
    <<"*","S","u","g","e","s","t","o","e","s",":","*","\n","*"," ","R","e","f","o","r",
      "m","u","l","e"," ","o"," ","p","e","d","i","d","o"," ","c","o","m"," ","m","a",
      "i","s"," ","d","e","t","a","l","h","e","s","\n","*"," ","D","i","v","i","d","a",
      " ","e","m"," ","p","a","r","t","e","s"," ","m","e","n","o","r","e","s","\n","*",
      " ","V","e","r","i","f","i","q","u","e"," ","s","e"," ","o","s"," ","s","e","r",
      "v","i","c","o","s"," ","n","e","c","e","s","s","a","r","i","o","s"," ","e","s",
      "t","a","o"," ","r","o","d","a","n","d","o"," ","(","/","h","e","a","l","t","h",
      ")">>

TxtErroInterno ==
    <<"!","!"," ","E","r","r","o"," ","i","n","t","e","r","n","o"," ","d","e"," ","e",
      "s","t","a","d","o",":"," ">>

\* an escalation message without the progress block and with the error text
\* in full
_escalate_bare(c, error) ==
    Join(<<TxtPreciso,
           TxtProblema \o (IF error # None THEN error ELSE TxtErroDesconhecido) \o NL,
           TxtSugestoes>>, NL)

\* TaskExecutor._escalate(ctx, error): the message only; it changes nothing
_escalate(c, error) ==
    LET progress  == get_progress_summary(c)
        error_msg == IF error # None THEN Prefix(error, ErrorMsgLimit)
                     ELSE TxtErroDesconhecido
        lines     == <<TxtPreciso, TxtProblema \o error_msg \o NL>>
                     \o (IF progress # <<>>
                         THEN <<TxtProgresso \o progress \o NL>> ELSE <<>>)
                     \o <<TxtSugestoes>>
    IN  Join(lines, NL)

TxtTransicaoIlegal ==
    <<"T","r","a","n","s","i","c","a","o"," ","i","l","e","g","a","l",":"," ">>

TxtArrow ==
    <<" ",">"," ">>

TxtValidas ==
    <<"."," ","V","a","l","i","d","a","s",":"," ">>

\* str(InvalidTransition) without the list of valid targets' spelling
InvalidTransitionText(from_state, to_state) ==
    TxtTransicaoIlegal \o <<from_state>> \o TxtArrow \o <<to_state>> \o TxtValidas

(***************************************************************************)
(* Output verification.                                                    *)
(***************************************************************************)
error_indicators ==
    { <<"e","r","r","o","r",":">>,
      <<"t","r","a","c","e","b","a","c","k">>,
      <<"e","x","c","e","p","t","i","o","n">>,
      <<"f","a","l","h","o","u">>,
      <<"n","a","o"," ","f","o","i"," ","p","o","s","s","i","v","e","l">>,
      <<"c","o","u","l","d","n","'","t">>,
      <<"f","a","i","l","e","d"," ","t","o">> }

TxtResultadoVazio ==
    <<"R","e","s","u","l","t","a","d","o"," ","v","a","z","i","o">>

TxtMultiplosErros ==
    <<"R","e","s","u","l","t","a","d","o"," ","c","o","n","t","e","m"," ","m","u","l",
      "t","i","p","l","o","s"," ","e","r","r","o","s">>

TxtMuitoCurto ==
    <<"R","e","s","u","l","t","a","d","o"," ","m","u","i","t","o"," ","c","u","r","t",
      "o"," ","p","a","r","a"," ","s","e","r"," ","u","t","i","l">>

\* error_count >= 3
ErrorCountLimit == 3

\* len(result.strip()) < 20
MinResultLen == 20

\* a check that measures the result with its surrounding whitespace
_verify_output_unstripped(result) ==
    LET lower_result == Lower(result)
        error_count  == Cardinality({s \in error_indicators :
                                        Contains(lower_result, s)})
    IN  IF result = <<>> \/ Strip(result) = <<>>
        THEN [passed |-> FALSE, reason |-> TxtResultadoVazio]
        ELSE IF error_count >= ErrorCountLimit
        THEN [passed |-> FALSE, reason |-> TxtMultiplosErros]
        ELSE IF Len(result) < MinResultLen
        THEN [passed |-> FALSE, reason |-> TxtMuitoCurto]
        ELSE [passed |-> TRUE, reason |-> None]

\* TaskExecutor._verify_output(ctx, result)
_verify_output(result) ==
    LET lower_result == Lower(result)
        error_count  == Cardinality({s \in error_indicators :
                                        Contains(lower_result, s)})
        stripped     == Strip(result)
    IN  IF result = <<>> \/ stripped = <<>>
        THEN [passed |-> FALSE, reason |-> TxtResultadoVazio]
        ELSE IF error_count >= ErrorCountLimit
        THEN [passed |-> FALSE, reason |-> TxtMultiplosErros]
        ELSE IF Len(stripped) < MinResultLen
        THEN [passed |-> FALSE, reason |-> TxtMuitoCurto]
        ELSE [passed |-> TRUE, reason |-> None]

(***************************************************************************)
(* Checkpoint store (GitCheckpoint): the history is the sequence of        *)
(* commits from the root to HEAD; git itself is taken to work.             *)
(***************************************************************************)
Commit(message, n, tag) == [message |-> message, n |-> n, tag |-> tag]

\* GitCheckpoint.init_repo(): git init and the initial (empty) commit
init_repo == <<Commit("Initial: task started", 0, None)>>

\* a checkpoint that never tags its commit
checkpoint_without_tag(history, message, n, tag) ==
    Append(history, Commit(message, n, None))

\* GitCheckpoint.checkpoint(message, tag): one commit on top of HEAD, also
\* when nothing changed (--allow-empty)
checkpoint(history, message, n, tag) == Append(history, Commit(message, n, tag))

\* GitCheckpoint.rollback(steps): git reset --hard HEAD~steps; it fails, and
\* changes nothing, when HEAD has fewer than `steps` ancestors
rollback(history, steps) ==
    IF Len(history) > steps
    THEN [ok |-> TRUE, history |-> SubSeq(history, 1, Len(history) - steps)]
    ELSE [ok |-> FALSE, history |-> history]

(***************************************************************************)
(* Behaviours of the collaborators that the model draws from.              *)
(***************************************************************************)
\* the user's request
Request ==
    <<"g","e","r","a","r"," ","r","e","l","a","t","o","r","i","o"," ","d","e"," ","v",
      "e","n","d","a","s">>

\* errors the delegate (team.run) may raise
ErrConnRefused ==
    <<"c","o","n","n","e","c","t","i","o","n"," ","r","e","f","u","s","e","d">>

ErrOutOfMemory ==
    <<"o","u","t"," ","o","f"," ","m","e","m","o","r","y">>

ErrTraceHead ==
    <<"T","i","m","e","o","u","t",":"," ","e","r","r","o","r",":"," ","e","x","c","e",
      "p","t","i","o","n"," ","i","n"," ","w","o","r","k","e","r",","," ","s","e","e",
      " ","t","r","a","c","e","b","a","c","k"," ">>

\* an error text longer than ErrorMsgLimit that carries three error indicators
ErrLong == ErrTraceHead \o [i \in 1..ErrorMsgLimit |-> "x"]

DelegateErrors == {ErrLong, ErrConnRefused, ErrOutOfMemory}

\* RuntimeError of SpecialistManager.get_team
ErrNoAgents ==
    <<"N","o"," ","s","p","e","c","i","a","l","i","s","t"," ","a","g","e","n","t","s",
      " ","c","o","u","l","d"," ","b","e"," ","c","r","e","a","t","e","d">>

\* an error raised by the planning collaborator
ErrPlanner ==
    <<"r","o","u","t","e","r"," ","o","f","f","l","i","n","e">>

\* texts the delegate may return
OutGood ==
    <<"R","e","l","a","t","o","r","i","o"," ","d","e"," ","v","e","n","d","a","s"," ",
      "g","e","r","a","d","o",":"," ","v","e","n","d","a","s",".","x","l","s","x">>

OutShort ==
    <<"o","k">>

DelegateOutputs == {OutGood, OutShort}

TxtTarefa ==
    <<"T","a","r","e","f","a",":"," ">>

\* RouterAgent.generate_task_spec(message): the specification, or raised = TRUE
\* when the collaborator raises
generate_task_spec(message) ==
    { [raised |-> FALSE, error |-> None,
       spec |-> [raw_spec |-> TxtTarefa \o message, original_request |-> message]],
      [raised |-> TRUE, error |-> ErrPlanner,
       spec |-> [raw_spec |-> <<>>, original_request |-> message]] }

NoSpec == [raw_spec |-> <<>>, original_request |-> <<>>]

TxtAtencao ==
    <<"\n","\n","A","T","E","N","C","A","O",":"," ","T","e","n","t","a","t","i","v","a",
      " ","a","n","t","e","r","i","o","r"," ","f","a","l","h","o","u"," ","c","o","m",
      " ","e","r","r","o",":"," ">>

TxtTenteAlternativa ==
    <<"\n","T","e","n","t","e"," ","u","m","a"," ","a","b","o","r","d","a","g","e","m",
      " ","a","l","t","e","r","n","a","t","i","v","a"," ","p","a","r","a"," ","r","e",
      "s","o","l","v","e","r"," ","o"," ","p","r","o","b","l","e","m","a",".">>

\* the task description handed to team.run on attempt k
task_description(sp, k, err) ==
    IF k > 1
    THEN sp.raw_spec \o TxtAtencao \o Prefix(err, ErrorMsgLimit) \o TxtTenteAlternativa
    ELSE sp.raw_spec

TxtContexto ==
    <<"\n","\n","C","O","N","T","E","X","T","O"," ","D","E"," ","R","E","C","U","P","E",
      "R","A","C","A","O",":"," ","A"," ","a","b","o","r","d","a","g","e","m"," ","a",
      "n","t","e","r","i","o","r"," ","f","a","l","h","o","u","."," ","M","o","t","i",
      "v","o",":"," ">>

TxtTentativasAnteriores ==
    <<"."," ","T","e","n","t","a","t","i","v","a","s"," ","a","n","t","e","r","i","o",
      "r","e","s",":"," ">>

TxtSlash ==
    <<"/">>

TxtUseDiferente ==
    <<"."," ","U","s","e"," ","u","m","a"," ","a","b","o","r","d","a","g","e","m"," ",
      "d","i","f","e","r","e","n","t","e",".">>

\* the request handed to the planning collaborator by _recover_and_replan
enriched_request(original_request, reason, n) ==
    original_request \o TxtContexto \o reason \o TxtTentativasAnteriores
    \o IntToText(n) \o TxtSlash \o IntToText(max_recoveries) \o TxtUseDiferente

(***************************************************************************)
(* Persistent task queue (src/core/task_queue.py): events, their wire      *)
(* format and the replayed projection.  Identifiers (task ids, worker ids, *)
(* event types, statuses) are strings or numbers; a timestamp is the       *)
(* value of the clock when the TaskEvent object was created.               *)
(***************************************************************************)
\* Python's None, where a timestamp is expected
NoTime == 0

\* fields.get("task_id", ""): the empty task id
NoTask == 0

\* the empty dict {}
EmptyDict == <<>>

\* d.get(k, default)
Get(d, k, default) == IF k \in DOMAIN d THEN d[k] ELSE default

\* a payload value json cannot encode, which default=str turns into its text
JsonLeaf(v) == IF v[1] = "obj" THEN <<"str", v[2]>> ELSE v

\* json.dumps(payload, ensure_ascii=False, default=str), as the JSON text
\* that stands for the encoded dict
json_dumps_payload(payload) ==
    <<"json", [k \in DOMAIN payload |-> JsonLeaf(payload[k])]>>

\* json.dumps(self.data, ensure_ascii=False, default=str)
json_dumps(data) ==
    <<"json", [k \in DOMAIN data |->
                 IF k = "payload"
                 THEN [j \in DOMAIN data[k] |-> JsonLeaf(data[k][j])]
                 ELSE data[k]]>>

\* json.loads(text)
json_loads(text) == text[2]

\* TaskEvent(event_type, data, worker_id, task_id), created when the clock
\* shows `now`
TaskEvent(event_type, data, worker_id, task_id, now) ==
    [event_type |-> event_type, data |-> data, worker_id |-> worker_id,
     task_id |-> task_id, timestamp |-> now]

\* TaskEvent.to_redis()
to_redis(e) ==
    [type |-> e.event_type, task_id |-> e.task_id, worker |-> e.worker_id,
     data |-> json_dumps(e.data), timestamp |-> e.timestamp]

\* TaskEvent.from_redis(fields): a new TaskEvent, whose timestamp is the time
\* of this call
from_redis(fields, now) ==
    TaskEvent(Get(fields, "type", "unknown"),
              json_loads(Get(fields, "data", <<"json", EmptyDict>>)),
              Get(fields, "worker", ""),
              Get(fields, "task_id", NoTask),
              now)

\* a projection that starts as a pending task
QueueTaskState_pending(task_id) ==
    [task_id |-> task_id, status |-> "pending", user_id |-> "", capability |-> "",
     payload |-> EmptyDict, worker_id |-> "", events |-> <<>>, result |-> None,
     error |-> None, enqueued_at |-> NoTime, started_at |-> NoTime,
     completed_at |-> NoTime, checkpoints |-> <<>>]

\* TaskState(task_id) of the queue: the projection before any event
QueueTaskState(task_id) ==
    [task_id |-> task_id, status |-> "unknown", user_id |-> "", capability |-> "",
     payload |-> EmptyDict, worker_id |-> "", events |-> <<>>, result |-> None,
     error |-> None, enqueued_at |-> NoTime, started_at |-> NoTime,
     completed_at |-> NoTime, checkpoints |-> <<>>]

\* a fold step that stamps the projection with the time of the call and not
\* with the time of the event
replay_step_now(state, event, now) ==
    LET s == [state EXCEPT !.events = Append(@, event)]
    IN  CASE event.event_type = "enqueued" ->
               [s EXCEPT !.status = "pending",
                         !.user_id = Get(event.data, "user_id", ""),
                         !.capability = Get(event.data, "capability", ""),
                         !.payload = Get(event.data, "payload", EmptyDict),
                         !.enqueued_at = now]
          [] event.event_type = "claimed" ->
               [s EXCEPT !.status = "claimed", !.worker_id = event.worker_id]
          [] event.event_type = "started" ->
               [s EXCEPT !.status = "processing", !.started_at = now]
          [] event.event_type = "completed" ->
               [s EXCEPT !.status = "completed",
                         !.result = Get(event.data, "result", <<>>),
                         !.completed_at = now]
          [] event.event_type = "failed" ->
               [s EXCEPT !.status = "failed",
                         !.error = Get(event.data, "error", <<>>)]
          [] OTHER -> s

\* one pass of the loop of TaskState.replay: the projection after `event`
replay_step(state, event, now) ==
    LET s == [state EXCEPT !.events = Append(@, event)]
    IN  CASE event.event_type = "enqueued" ->
               [s EXCEPT !.status = "pending",
                         !.user_id = Get(event.data, "user_id", ""),
                         !.capability = Get(event.data, "capability", ""),
                         !.payload = Get(event.data, "payload", EmptyDict),
                         !.enqueued_at = event.timestamp]
          [] event.event_type = "claimed" ->
               [s EXCEPT !.status = "claimed", !.worker_id = event.worker_id]
          [] event.event_type = "started" ->
               [s EXCEPT !.status = "processing", !.started_at = event.timestamp]
          [] event.event_type = "progressed" ->
               [s EXCEPT !.status = "processing"]
          [] event.event_type = "checkpoint" ->
               [s EXCEPT !.checkpoints =
                   Append(@, [step |-> Get(event.data, "step", ""),
                              hash |-> Get(event.data, "hash", ""),
                              timestamp |-> event.timestamp])]
          [] event.event_type = "completed" ->
               [s EXCEPT !.status = "completed",
                         !.result = Get(event.data, "result", <<>>),
                         !.completed_at = event.timestamp]
          [] event.event_type = "failed" ->
               [s EXCEPT !.status = "failed",
                         !.error = Get(event.data, "error", <<>>)]
          [] event.event_type = "recovered" ->
               [s EXCEPT !.status = "processing", !.error = None]
          [] OTHER -> s

\* TaskState.replay(task_id, events), called when the clock shows `now`
RECURSIVE replay_from(_, _, _)
replay_from(state, events, now) ==
    IF events = <<>> THEN state
    ELSE replay_from(replay_step(state, Head(events), now), Tail(events), now)

replay(task_id, events, now) == replay_from(QueueTaskState(task_id), events, now)

(***************************************************************************)
(* The backing store of the queue (Redis Streams): the pending stream      *)
(* with its consumer group, and one event stream per task.  A message id   *)
(* is the position of the entry in the pending stream.                     *)
(***************************************************************************)
\* original_request[:500] of the pending-stream entry
RequestEntryLimit == 500

\* original_request[:200] of the "enqueued" event
RequestEventLimit == 200

\* result[:500] and error[:500] of the completed and failed events
ResultLimit == 500

\* count=50 of xpending_range
PendingScanCount == 50

\* XADD: the stream with one more entry
xadd(s, fields) == Append(s, fields)

\* XREADGROUP that does not move the group's last-delivered id
xreadgroup_no_advance(s, last, p, consumer) ==
    IF last < Len(s)
    THEN [messages |-> <<[message_id |-> last + 1, fields |-> s[last + 1]]>>,
          last_delivered |-> last,
          pel |-> p \cup {[message_id |-> last + 1, consumer |-> consumer]}]
    ELSE [messages |-> <<>>, last_delivered |-> last, pel |-> p]

\* XREADGROUP GROUP g consumer COUNT 1 STREAMS s ">": the first entry never
\* delivered to the group, which becomes pending for the consumer; nothing
\* when every entry has been delivered
xreadgroup(s, last, p, consumer) ==
    IF last < Len(s)
    THEN [messages |-> <<[message_id |-> last + 1, fields |-> s[last + 1]]>>,
          last_delivered |-> last + 1,
          pel |-> p \cup {[message_id |-> last + 1, consumer |-> consumer]}]
    ELSE [messages |-> <<>>, last_delivered |-> last, pel |-> p]

\* XACK that removes nothing
xack_noop(p, message_id) == p

\* XACK: the entry leaves the group's pending list
xack(p, message_id) == {e \in p : e.message_id # message_id}

\* the message ids pending in the group
PelIds(p) == {e.message_id : e \in p}

\* XPENDING s g - + count: the pending entries by increasing id, `count` at
\* most; n is the last id of the stream
RECURSIVE PendingFrom(_, _, _, _)
PendingFrom(p, i, n, count) ==
    IF i > n \/ count = 0 THEN <<>>
    ELSE IF i \in PelIds(p)
    THEN <<CHOOSE e \in p : e.message_id = i>> \o PendingFrom(p, i + 1, n, count - 1)
    ELSE PendingFrom(p, i + 1, n, count)

xpending_range(s, p, count) == PendingFrom(p, 1, Len(s), count)

\* XRANGE s id id
xrange(s, message_id) ==
    IF message_id \in 1..Len(s)
    THEN <<[message_id |-> message_id, fields |-> s[message_id]]>>
    ELSE <<>>

\* _log_event that lets the failure of the store through
_log_event_unguarded(log, task_id, event, fault) ==
    IF fault THEN [log |-> log, raised |-> TRUE]
    ELSE [log |-> [log EXCEPT ![task_id] = Append(@, to_redis(event))],
          raised |-> FALSE]

\* PersistentTaskQueue._log_event(task_id, event): XADD to the task's event
\* stream; a failure of the store (fault) is logged and swallowed
_log_event(log, task_id, event, fault) ==
    IF fault THEN [log |-> log, raised |-> FALSE]
    ELSE [log |-> [log EXCEPT ![task_id] = Append(@, to_redis(event))],
          raised |-> FALSE]

\* PersistentTaskQueue._get_events(task_id): the events read back, or [] when
\* the store fails
_get_events(log, task_id, now, fault) ==
    IF fault \/ task_id \notin DOMAIN log THEN <<>>
    ELSE SubSeq([i \in 1..Len(log[task_id]) |-> from_redis(log[task_id][i], now)],
                1, Len(log[task_id]))

\* PersistentTaskQueue.recover_state(task_id)
recover_state(log, task_id, now, fault) ==
    replay(task_id, _get_events(log, task_id, now, fault), now)

\* the loop of get_unfinished_tasks over the pending entries
RECURSIVE ScanPending(_, _, _, _, _)
ScanPending(pending, s, log, now, fault) ==
    IF pending = <<>> THEN <<>>
    ELSE LET messages == xrange(s, Head(pending).message_id)
             task_id  == IF messages # <<>>
                         THEN Get(messages[1].fields, "task_id", NoTask)
                         ELSE NoTask
             state    == recover_state(log, task_id, now, fault = "events")
             rest     == ScanPending(Tail(pending), s, log, now, fault)
         IN  IF task_id # NoTask /\ state.status \notin {"completed", "failed"}
             THEN <<state>> \o rest
             ELSE rest

\* PersistentTaskQueue.get_unfinished_tasks(); fault is the call of the store
\* that fails, if any: "xpending", "xrange", "events" (the reads of
\* _get_events) or "none"
get_unfinished_tasks(s, p, log, now, fault) ==
    LET pending == xpending_range(s, p, PendingScanCount)
    IN  IF fault = "xpending" \/ (fault = "xrange" /\ pending # <<>>)
        THEN <<>>
        ELSE ScanPending(pending, s, log, now, fault)

\* what enqueue is called with
UserId == "u1"
Capability == "report"
Payload == [file |-> <<"str", "vendas.csv">>, due |-> <<"obj", "2026-01-31">>]

\* the worker processes, each with its own PersistentTaskQueue
Workers == {"w1", "w2"}

\* the record of a call: the method, the calling worker, the task and message
\* it was about, the call of the store that failed, whether the method raised,
\* and what it returned (<<>> for None)
Call(op, w, task_id, message_id, fault, raised_, out) ==
    [op |-> op, worker |-> w, task_id |-> task_id, message_id |-> message_id,
     fault |-> fault, raised |-> raised_, out |-> out]

\* no call made yet
NoCall == Call("none", "", NoTask, 0, "none", FALSE, <<>>)

(***************************************************************************)
(* GitCheckpoint on a working directory: the files, git's index, the       *)
(* commit objects and HEAD.  A commit hash is the position of the commit   *)
(* among the objects; a file content is 0 when the file is absent.         *)
(***************************************************************************)
\* number of versions a file can take
MaxVersion == 1

\* number of commits the repository can hold
MaxCommits == 3

\* the files of the task directory
Files == {"report.csv", "run.log"}

\* the patterns init_repo writes to .gitignore: "*.log" matches run.log
Ignored(f) == f = "run.log"

\* Python's None, where a commit hash is expected; also HEAD before the
\* first commit
NoCommit == 0

\* the tree of a repository without files
EmptyTree == [f \in Files |-> 0]

\* what `git add -A` stages of a working directory
Stage(wt) == [f \in Files |-> IF Ignored(f) THEN 0 ELSE wt[f]]

\* a repository: working directory, index, objects, HEAD
Repo(wt, idx, objs, h) == [worktree |-> wt, index |-> idx, objects |-> objs, head |-> h]

\* the tree of HEAD
HeadTree(r) == IF r.head = NoCommit THEN EmptyTree ELSE r.objects[r.head].tree

\* the commit `steps` parents before commit h, NoCommit when there is none
RECURSIVE Ancestor(_, _, _)
Ancestor(objs, h, steps) ==
    IF h = NoCommit \/ steps = 0 THEN h
    ELSE Ancestor(objs, objs[h].parent, steps - 1)

\* _run_git("add", "-A"); the command fails (times out) when fault
git_add(r, fault) == IF fault THEN r ELSE [r EXCEPT !.index = Stage(r.worktree)]

\* _run_git("status", "--porcelain"): whether the output is not empty
git_status(r) == r.index # HeadTree(r) \/ Stage(r.worktree) # r.index

\* _run_git("commit", ...): a commit of the index on top of HEAD; without
\* --allow-empty it fails when nothing is staged.  The commit remembers the
\* whole working directory of that moment in `seen`.
git_commit(r, allow_empty, fault) ==
    IF fault \/ (~allow_empty /\ r.index = HeadTree(r))
    THEN [code |-> 1, repo |-> r]
    ELSE [code |-> 0,
          repo |-> [r EXCEPT !.objects = Append(@, [parent |-> r.head,
                                                     tree |-> r.index,
                                                     seen |-> r.worktree]),
                             !.head = Len(r.objects) + 1]]

\* _run_git("reset", "--hard", target): index and tracked files become those
\* of the target commit; untracked files stay
git_reset_hard(r, target, fault) ==
    IF fault \/ target \notin 1..Len(r.objects)
    THEN [code |-> 1, repo |-> r]
    ELSE LET tree == r.objects[target].tree
             tracked(f) == r.index[f] # 0 \/ HeadTree(r)[f] # 0 \/ tree[f] # 0
         IN  [code |-> 0,
              repo |-> [r EXCEPT !.worktree = [f \in Files |->
                                                 IF tracked(f) THEN tree[f]
                                                 ELSE r.worktree[f]],
                                 !.index = tree,
                                 !.head = target]]

\* GitCheckpoint.init_repo(): git init, .gitignore, add and the initial commit
git_init_repo(r, fault) ==
    IF fault = "init" THEN [ok |-> FALSE, repo |-> r]
    ELSE [ok |-> TRUE,
          repo |-> git_commit(git_add(r, fault = "add"), TRUE, fault = "commit").repo]

\* GitCheckpoint.checkpoint(message); fault is the git command that fails, if
\* any: "add", "status", "commit", "rev-parse" or "none"
git_checkpoint(r, fault) ==
    LET r1    == git_add(r, fault = "add")
        clean == fault # "status" /\ ~git_status(r1)
        c     == git_commit(r1, clean, fault = "commit")
    IN  IF ~clean /\ c.code # 0 THEN [hash |-> NoCommit, repo |-> c.repo]
        ELSE IF fault = "rev-parse" \/ c.repo.head = NoCommit
        THEN [hash |-> NoCommit, repo |-> c.repo]
        ELSE [hash |-> c.repo.head, repo |-> c.repo]

\* GitCheckpoint.rollback(steps): git reset --hard HEAD~steps
git_rollback(r, steps, fault) ==
    LET c == git_reset_hard(r, Ancestor(r.objects, r.head, steps), fault)
    IN  [ok |-> c.code = 0, repo |-> c.repo]

\* GitCheckpoint.rollback_to_commit(commit_hash)
git_rollback_to_commit(r, commit_hash, fault) ==
    LET c == git_reset_hard(r, commit_hash, fault)
    IN  [ok |-> c.code = 0, repo |-> c.repo]

\* the record of a call on the GitCheckpoint
GitCall(op, a, fault, ok, hash) ==
    [op |-> op, arg |-> a, fault |-> fault, ok |-> ok, hash |-> hash]

(***************************************************************************)
(* The agent loop: AgentLoop.run with its ToolRegistry and SessionStore.   *)
(* A text is a record: its kind (the fixed wording), the tool name and the *)
(* tool names it mentions, and its free words.                             *)
(***************************************************************************)
\* largest max_rounds a run is called with
MaxRounds == 2

\* number of writes of the session file that may fail during a run
MaxWriteFaults == 1

\* load(..., max_messages=50)
max_messages == 50

Text(kind, name, names, words) ==
    [kind |-> kind, name |-> name, names |-> names, words |-> words]

\* a text made of words only
Words(words) == Text("text", "", {}, words)

\* "Tarefa concluida."
TxtTarefaConcluida == Text("default", "", {}, <<"Tarefa", "concluida.">>)

\* the message of run when the rounds are exhausted
timeout_msg == Text("limit", "", {}, <<"Atingi", "o", "limite", "de", "execucoes">>)

\* the version the manifest states
RealVersion == "3.0"

\* the tools registered in the ToolRegistry, and the tools the manifest
\* lists as available
RegisteredTools == {"create_csv"}
ManifestTools == {"create_csv", "search_web"}

\* words[i] states a version: "versao" followed by a number
IsVersionClaim(words, i) == i > 1 /\ words[i - 1] = "versao"

\* HonestyEnforcer.check_response(text): a version other than the real one
\* is a violation and is replaced; a model name is a violation and stays
check_response(words) ==
    LET fake_version == \E i \in 1..Len(words) :
                          IsVersionClaim(words, i) /\ words[i] # RealVersion
        fake_model   == \E i \in 1..Len(words) : words[i] = "gpt-4"
    IN  [honest    |-> ~fake_version /\ ~fake_model,
         corrected |-> [i \in 1..Len(words) |->
                          IF IsVersionClaim(words, i) THEN RealVersion ELSE words[i]]]

\* a _sanity_check that sends the text as the model wrote it
_sanity_check_off(text, import_fails) == text

\* AgentLoop._sanity_check(text); the sanity layer cannot be imported when
\* import_fails
_sanity_check(text, import_fails) ==
    IF import_fails THEN text
    ELSE LET r == check_response(text.words)
         IN  IF ~r.honest THEN [text EXCEPT !.words = r.corrected] ELSE text

\* a has_tool that knows every name
has_tool_any(tools, name) == TRUE

\* ToolRegistry.has_tool(name)
has_tool(tools, name) == name \in tools

\* AgentLoop._handle_unknown_tool(tool_name); the CapabilityRegistry raises
\* when registry_fails
_handle_unknown_tool(tools, tool_name, registry_fails) ==
    IF registry_fails
    THEN Text("unknown_tool", tool_name, tools, <<>>)
    ELSE Text("unknown_tool", tool_name, ManifestTools, <<"reason">>)

\* an execute that lets the exceptions of the tool through
execute_unguarded(tools, name, arguments, outcome) ==
    IF name \notin tools
    THEN [raised |-> FALSE, tools |-> tools,
          text |-> Text("not_registered", name, tools, <<>>)]
    ELSE IF arguments # "match"
    THEN [raised |-> TRUE, tools |-> tools, text |-> Words(<<>>)]
    ELSE IF outcome = "raises"
    THEN [raised |-> TRUE, tools |-> tools, text |-> Words(<<>>)]
    ELSE [raised |-> FALSE, tools |-> tools, text |-> Words(<<"arquivo", "criado">>)]

\* ToolRegistry.execute(name, arguments): arguments either match the
\* signature of the tool ("match"), or do not ("mismatch"), or are no dict
\* ("no_dict"); outcome is what the tool does with matching arguments
execute(tools, name, arguments, outcome) ==
    IF name \notin tools
    THEN [raised |-> FALSE, tools |-> tools,
          text |-> Text("not_registered", name, tools, <<>>)]
    ELSE IF arguments # "match"
    THEN [raised |-> FALSE, tools |-> tools,
          text |-> Text("bad_params", name, {}, <<"TypeError">>)]
    ELSE IF outcome = "raises"
    THEN [raised |-> FALSE, tools |-> tools,
          text |-> Text("tool_failed", name, {}, <<"disk", "full">>)]
    ELSE [raised |-> FALSE, tools |-> tools, text |-> Words(<<"arquivo", "criado">>)]

\* a message of the conversation
Message(role, content, tool_calls, tool_call_id, name) ==
    [role |-> role, content |-> content, tool_calls |-> tool_calls,
     tool_call_id |-> tool_call_id, name |-> name]

\* {"role": role, "content": content}
PlainMessage(role, content) == Message(role, content, <<>>, "", "")

\* a tool call of a response
ToolCall(id, name, arguments) == [id |-> id, name |-> name, arguments |-> arguments]

\* the assistant message of a response with tool calls; the arguments go as
\* JSON text
assistant_msg(response) ==
    Message("assistant", response.content,
            [i \in 1..Len(response.tool_calls) |->
               [id |-> response.tool_calls[i].id,
                type |-> "function",
                function |-> [name |-> response.tool_calls[i].name,
                              arguments |-> <<"json", response.tool_calls[i].arguments>>]]],
            "", "")

\* a tool message that does not say which call it answers
tool_result_msg_no_id(tc, content) == Message("tool", content, <<>>, "", tc.name)

\* the tool message for call tc
tool_result_msg(tc, content) == Message("tool", content, <<>>, tc.id, tc.name)

\* SessionStore.append(user_id, message): one line more in the session file,
\* unless the write fails (fault), which is logged and swallowed
append(file, message, fault) == IF fault THEN file ELSE Append(file, message)

\* SessionStore.load(user_id, session_id): the last max_messages messages
load(file) ==
    IF Len(file) > max_messages
    THEN SubSeq(file, Len(file) - max_messages + 1, Len(file))
    ELSE file

\* a for loop that runs one round more
in_range_one_more(round_num, rounds) == round_num <= rounds + 1

\* round_num in range(1, max_rounds + 1)
in_range(round_num, rounds) == round_num <= rounds

\* LLMResponse(content, tool_calls)
LLMResponse(content, tool_calls) == [content |-> content, tool_calls |-> tool_calls]

\* LLMResponse.is_final
is_final(response) == Len(response.tool_calls) = 0

\* what the model backend can answer: a final text (empty, plain, or with a
\* made-up version), or tool calls with known and unknown names
FinalResponses ==
    {LLMResponse(Words(w), <<>>) :
       w \in {<<>>, <<"planilha", "criada">>, <<"sou", "versao", "9.9">>}}

ToolResponses ==
    {LLMResponse(Words(<<>>), tcs) :
       tcs \in {<<ToolCall("c1", "create_csv", "match")>>,
                <<ToolCall("c1", "send_email", "match")>>,
                <<ToolCall("c1", "create_csv", "mismatch"),
                  ToolCall("c2", "send_email", "match")>>,
                <<ToolCall("c1", "send_email", "match"),
                  ToolCall("c2", "create_csv", "match")>>}}

\* an event of the run: the events run emits, the calls of the model backend
\* and the calls of ToolRegistry.execute
LoopEvent(type, round, name, id) == [type |-> type, round |-> round, name |-> name, id |-> id]

\* what run was called with
UserMessage == PlainMessage("user", Words(<<"crie", "uma", "planilha">>))
SystemMessage == PlainMessage("system", Words(<<"Voce", "e", "SimpleClaw">>))

\* the session file of an earlier turn
EarlierTurn ==
    <<PlainMessage("user", Words(<<"ola">>)), PlainMessage("assistant", Words(<<"ola">>))>>

(***************************************************************************)
(* FrozenManifest (src/sanity/frozen_manifest.py): the singleton class, its *)
(* one object and the manifest file.  The content of the file is a version *)
(* number; an attribute that was never set has the value Unset.            *)
(***************************************************************************)
\* number of contents the manifest file can take
MaxContents == 2

\* path.exists() is false
NoFile == 0

\* cls._instance is None
NoInstance == "None"

\* an attribute the object does not have
Unset == 0

\* the attribute names assigned and deleted from outside
AttrNames == {"_data", "note"}

\* object.__new__(cls): no instance attribute; _frozen reads as the class
\* attribute, False
NewObject == [_frozen |-> FALSE, _data |-> Unset, note |-> Unset]

\* FrozenManifest._load_and_freeze(path) on obj
_load_and_freeze(obj, file) ==
    IF file = NoFile
    THEN [raised |-> "FileNotFoundError", obj |-> obj]
    ELSE [raised |-> "", obj |-> [obj EXCEPT !._data = file, !._frozen = TRUE]]

\* FrozenManifest.__new__(cls, path): the class attribute is assigned before
\* the load, and stays assigned when the load raises
__new__(instance, obj, file) ==
    IF instance = NoInstance
    THEN LET l == _load_and_freeze(NewObject, file)
         IN  [instance |-> "object", obj |-> l.obj, raised |-> l.raised]
    ELSE [instance |-> instance, obj |-> obj, raised |-> ""]

\* FrozenManifest.__setattr__(name, value)
__setattr__(obj, name, value) ==
    IF obj._frozen
    THEN [raised |-> "ImmutableError", obj |-> obj]
    ELSE [raised |-> "", obj |-> [obj EXCEPT ![name] = value]]

\* FrozenManifest.__delattr__(name); deleting an attribute the object does
\* not have raises AttributeError
__delattr__(obj, name) ==
    IF obj._frozen
    THEN [raised |-> "ImmutableError", obj |-> obj]
    ELSE IF obj[name] = Unset
    THEN [raised |-> "AttributeError", obj |-> obj]
    ELSE [raised |-> "", obj |-> [obj EXCEPT ![name] = Unset]]

\* the record of a call: the operation, the attribute it was about, the
\* exception raised ("" for none), and whether an object was returned
ManifestCall(op, name, raised_, returned_) ==
    [op |-> op, name |-> name, raised |-> raised_, returned |-> returned_]

(***************************************************************************)
(* State.                                                                  *)
(***************************************************************************)
VARIABLES
    pc,            \* position of the running execute() call
    frame,         \* "execute", or "replan" inside _recover_and_replan
    run,           \* number of execute() calls started on this TaskExecutor
    ctx,           \* the TaskContext of the running call
    attempt,       \* loop variable of _execute_with_recovery
    last_error,    \* local last_error of _execute_with_recovery
    spec,          \* the task specification in use
    result,        \* what _execute_with_recovery returned
    verification,  \* what _verify_output returned
    returned,      \* what execute() returned to its caller, None while running
    raised,        \* the exception execute() let through to its caller, else None
    team,          \* SpecialistManager._team: "none" or "built"
    commits,       \* the checkpoint history of the task's working directory
    trace,         \* calls made by the running execute(), in order
    steps_before,  \* ctx.steps_completed at the entry of _execute_with_recovery
    arg,           \* argument of a call of a function taken alone
    ret,           \* its result
    called,        \* whether that call has been made
    stream,        \* the pending stream: its entries, by message id
    last_delivered,\* the consumer group's last-delivered message id
    pel,           \* the group's pending list: entries delivered, not acked
    event_log,     \* the event stream of each task, by task id
    clock,         \* the time
    alive,         \* the worker processes that have not died
    marks,         \* number of checkpoint and mark_* calls made
    deliveries,    \* what claim_next returned to workers, in order
    enqueued,      \* the task ids enqueue returned to its callers
    ack_called,    \* the message ids ack was called with
    qret,          \* the last call of a queue method
    inflight,      \* the task id of the enqueue call between its two writes
    worktree,      \* the files of the task directory, by name
    index,         \* git's index of that directory
    objects,       \* the commits of its repository, by hash
    head,          \* HEAD of the repository
    gret,          \* the last call of a GitCheckpoint method
    lpc,           \* position of the AgentLoop.run call
    max_rounds,    \* its max_rounds argument
    sanity_ok,     \* whether the sanity layer can be imported and loaded
    round_num,     \* loop variable of run
    messages,      \* the in-memory message list of run
    base,          \* number of messages run started from: system and history
    pending,       \* the tool calls of the response not yet executed
    session,       \* the lines of the session file
    write_faults,  \* number of writes of the session file that failed
    ltrace,        \* events emitted and collaborators called by run, in order
    lret,          \* what run returned
    manifest_file, \* the manifest file: its content, or NoFile
    _instance,     \* the class attribute FrozenManifest._instance
    manifest,      \* the attributes of the FrozenManifest object
    mret           \* the last call on FrozenManifest

vars ==
    <<pc, frame, run, ctx, attempt, last_error, spec, result, verification,
      returned, raised, team, commits, trace, steps_before, arg, ret, called,
      stream, last_delivered, pel, event_log, clock, alive, marks, deliveries,
      enqueued, ack_called, qret, inflight, worktree, index, objects, head, gret,
      lpc, max_rounds, sanity_ok, round_num, messages, base, pending, session,
      write_faults, ltrace, lret, manifest_file, _instance, manifest, mret>>

execVars ==
    <<pc, frame, run, ctx, attempt, last_error, spec, result, verification,
      returned, raised, team, commits, trace, steps_before>>

callVars == <<arg, ret, called>>

queueVars ==
    <<stream, last_delivered, pel, event_log, clock, alive, marks, deliveries,
      enqueued, ack_called, qret, inflight>>

gitVars == <<worktree, index, objects, head, gret>>

loopVars ==
    <<lpc, max_rounds, sanity_ok, round_num, messages, base, pending, session,
      write_faults, ltrace, lret>>

manifestVars == <<manifest_file, _instance, manifest, mret>>

\* one entry of the trace
Ev(ev, s, n, text) == [ev |-> ev, s |-> s, n |-> n, text |-> text]

EvTransition(to_state) == Ev("transition", to_state, 0, <<>>)

\* tag names: f"done-{task_id}", f"recovered-{ctx.task_id}"
Tag(kind, task_id) == <<kind, task_id>>

\* the handlers of execute with `except Exception` left out: any other
\* exception goes through to the caller
execute_except_invalid_only(c, kind, text) ==
    IF kind = "InvalidTransition"
    THEN [returned |-> TxtErroInterno \o text, raised |-> None]
    ELSE [returned |-> None, raised |-> text]

\* the handlers of execute: `except InvalidTransition`, `except Exception`
execute_except(c, kind, text) ==
    IF kind = "InvalidTransition"
    THEN [returned |-> TxtErroInterno \o text, raised |-> None]
    ELSE [returned |-> _escalate(c, text), raised |-> None]

\* the handler of _recover_and_replan: `except Exception`
replan_except(c, kind, text) ==
    [returned |-> _escalate(c, text), raised |-> None]

\* an exception of class `kind` raised in frame fr, outside
\* _execute_with_recovery's own try block
Raise(fr, c, kind, text) ==
    IF fr = "replan" THEN replan_except(c, kind, text)
    ELSE execute_except(c, kind, text)

\* ctx.transition(to_state) raised InvalidTransition in frame fr
RaiseInvalid(fr, c, to_state) ==
    Raise(fr, c, "InvalidTransition", InvalidTransitionText(c.state, to_state))

\* the task directory before init_repo: no file, no repository
InitGit ==
    /\ worktree = EmptyTree
    /\ index = EmptyTree
    /\ objects = <<>>
    /\ head = NoCommit
    /\ gret = GitCall("none", 0, "none", TRUE, NoCommit)

\* AgentLoop before run is called
InitLoop ==
    /\ lpc = "idle"
    /\ max_rounds = 0
    /\ sanity_ok = TRUE
    /\ round_num = 0
    /\ messages = <<>>
    /\ base = 0
    /\ pending = <<>>
    /\ session = <<>>
    /\ write_faults = 0
    /\ ltrace = <<>>
    /\ lret = [done |-> FALSE, text |-> Words(<<>>)]

\* the class FrozenManifest after import, with the manifest file missing
InitManifest ==
    /\ manifest_file = NoFile
    /\ _instance = NoInstance
    /\ manifest = NewObject
    /\ mret = ManifestCall("none", "", "", FALSE)

InitExec ==
    /\ pc = "idle"
    /\ frame = "execute"
    /\ run = 0
    /\ ctx = TaskContext(0)
    /\ attempt = 0
    /\ last_error = None
    /\ spec = NoSpec
    /\ result = None
    /\ verification = [passed |-> FALSE, reason |-> None]
    /\ returned = None
    /\ raised = None
    /\ team = "none"
    /\ commits = <<>>
    /\ trace = <<>>
    /\ steps_before = <<>>
    /\ InitGit
    /\ InitLoop
    /\ InitManifest

\* the store after the consumer group was created: nothing enqueued
InitStore ==
    /\ stream = <<>>
    /\ last_delivered = 0
    /\ pel = {}
    /\ event_log = <<>>
    /\ clock = 1
    /\ alive = Workers
    /\ marks = 0
    /\ deliveries = <<>>
    /\ enqueued = {}
    /\ ack_called = {}
    /\ qret = NoCall
    /\ inflight = NoTask

Init ==
    /\ InitExec
    /\ InitStore
    /\ arg = <<>>
    /\ ret = <<>>
    /\ called = FALSE

(***************************************************************************)
(* TaskExecutor.execute, one action per phase boundary.                    *)
(***************************************************************************)
\* execute() ends: h is what a handler made of an exception
Finish(h) ==
    /\ returned' = h.returned
    /\ raised' = h.raised
    /\ pc' = "done"

\* return text
Return(text) == Finish([returned |-> text, raised |-> None])

\* execute() goes on
Running == UNCHANGED <<returned, raised>>

\* execute(): a new TaskContext, the working directory and its repository
Start ==
    /\ pc \in {"idle", "done"}
    /\ run < MaxRuns
    /\ run' = run + 1
    /\ ctx' = TaskContext(run + 1)
    /\ commits' = init_repo
    /\ frame' = "execute"
    /\ attempt' = 0
    /\ last_error' = None
    /\ spec' = NoSpec
    /\ result' = None
    /\ verification' = [passed |-> FALSE, reason |-> None]
    /\ returned' = None
    /\ raised' = None
    /\ trace' = <<>>
    /\ steps_before' = <<>>
    /\ pc' = "analyzing"
    /\ UNCHANGED <<team, callVars, queueVars, gitVars, loopVars, manifestVars>>

\* PHASE 1: ANALYZING
Analyze ==
    /\ pc = "analyzing"
    /\ LET tr == transition(ctx, ANALYZING)
       IN  IF ~tr.ok
           THEN /\ Finish(RaiseInvalid(frame, ctx, ANALYZING))
                /\ UNCHANGED <<ctx, commits, spec, trace>>
           ELSE \E o \in generate_task_spec(Request) :
                  LET t1 == trace \o <<EvTransition(ANALYZING), Ev("plan", "", 0, Request)>>
                  IN  IF o.raised
                      THEN /\ ctx' = tr.ctx
                           /\ Finish(Raise(frame, tr.ctx, "Exception", o.error))
                           /\ trace' = t1
                           /\ UNCHANGED <<commits, spec>>
                      ELSE /\ commits' = checkpoint(commits, "Analise concluida - spec gerada",
                                                    0, None)
                           /\ ctx' = add_step_result(tr.ctx,
                                        StepResult(TxtAnalise, TRUE, TxtSpecGerada, None, None))
                           /\ spec' = o.spec
                           /\ trace' = Append(t1, Ev("checkpoint", "analise", 0, <<>>))
                           /\ pc' = "planning"
                           /\ Running
    /\ UNCHANGED <<frame, run, attempt, last_error, result, verification, team,
                   steps_before, callVars, queueVars, gitVars, loopVars, manifestVars>>

\* PHASE 2: PLANNING
Plan ==
    /\ pc = "planning"
    /\ LET tr == transition(ctx, PLANNING)
       IN  IF ~tr.ok
           THEN /\ Finish(RaiseInvalid(frame, ctx, PLANNING))
                /\ UNCHANGED <<ctx, commits, trace>>
           ELSE /\ commits' = checkpoint(commits, "Plano de execucao definido", 0, None)
                /\ ctx' = add_step_result(tr.ctx,
                             StepResult(TxtPlanejamento, TRUE, <<>>, None, None))
                /\ trace' = trace \o <<EvTransition(PLANNING),
                                       Ev("checkpoint", "plano", 0, <<>>)>>
                /\ pc' = "executing"
                /\ Running
    /\ UNCHANGED <<frame, run, attempt, last_error, spec, result, verification, team,
                   steps_before, callVars, queueVars, gitVars, loopVars, manifestVars>>

\* the state of the task when the loop of _execute_with_recovery is left with
\* every attempt failed, set to ESCALATED by assignment
AfterLoopEscalated(c, err) ==
    [ctx |-> [c EXCEPT !.state = ESCALATED], result |-> _escalate(c, err)]

\* "All attempts exhausted": return self._escalate(ctx, last_error)
AfterLoop(c, err) ==
    [ctx |-> c, result |-> _escalate(c, err)]

\* PHASE 3: EXECUTING, entry of _execute_with_recovery
BeginExecute ==
    /\ pc = "executing"
    /\ LET tr == transition(ctx, EXECUTING)
       IN  IF ~tr.ok
           THEN /\ Finish(RaiseInvalid(frame, ctx, EXECUTING))
                /\ UNCHANGED <<ctx, attempt, last_error, result, trace, steps_before>>
           ELSE IF max_recoveries < 1
           THEN \E x \in {AfterLoop(tr.ctx, None)} :
                    /\ ctx' = x.ctx
                    /\ result' = x.result
                    /\ last_error' = None
                    /\ trace' = Append(trace, EvTransition(EXECUTING))
                    /\ steps_before' = tr.ctx.steps_completed
                    /\ pc' = "verifying"
                    /\ Running
                    /\ UNCHANGED attempt
           ELSE /\ ctx' = tr.ctx
                /\ attempt' = 1
                /\ last_error' = None
                /\ trace' = Append(trace, EvTransition(EXECUTING))
                /\ steps_before' = tr.ctx.steps_completed
                /\ pc' = "attempt"
                /\ Running
                /\ UNCHANGED result
    /\ UNCHANGED <<frame, run, spec, verification, team, commits, callVars, queueVars, gitVars, loopVars, manifestVars>>

\* SpecialistManager.get_team(): the cached team, or a fresh one
get_team_event(tm) == Ev("get_team", IF tm = "none" THEN "fresh" ELSE "cached", 0, <<>>)

\* the recovery branch with a constant wait and no rollback for Severe
recovery_step_flat(severity, k, tm, history) ==
    CASE severity = TRANSIENT ->
           [team |-> tm, history |-> history, events |-> <<Ev("sleep", "", 2, <<>>)>>]
      [] severity = RECOVERABLE ->
           [team |-> "none", history |-> history,
            events |-> <<Ev("discard_team", "", 0, <<>>), Ev("sleep", "", 1, <<>>)>>]
      [] severity = SEVERE ->
           [team |-> "none", history |-> history,
            events |-> <<Ev("discard_team", "", 0, <<>>), Ev("sleep", "", 2, <<>>)>>]
      [] OTHER ->
           [team |-> tm, history |-> history, events |-> <<>>]

\* the branch on the severity after attempt k failed: what it leaves of the
\* cached team and of the checkpoint history, and the calls it makes
recovery_step(severity, k, tm, history) ==
    CASE severity = TRANSIENT ->
           [team |-> tm, history |-> history,
            events |-> <<Ev("sleep", "", 2 * k, <<>>)>>]
      [] severity = RECOVERABLE ->
           [team |-> "none", history |-> history,
            events |-> <<Ev("discard_team", "", 0, <<>>), Ev("sleep", "", 1, <<>>)>>]
      [] severity = SEVERE ->
           LET rb == rollback(history, 1)
           IN  [team |-> "none", history |-> rb.history,
                events |-> <<Ev("rollback", IF rb.ok THEN "ok" ELSE "failed", 1, <<>>),
                             Ev("discard_team", "", 0, <<>>),
                             Ev("sleep", "", 2, <<>>)>>]
      [] OTHER ->
           [team |-> tm, history |-> history, events |-> <<>>]

\* the `except Exception as e` of _execute_with_recovery on this attempt, with
\* the team as get_team left it and the trace up to the raise
HandleFailure(e, tm, t0) ==
    \E severity \in {classify_error(e)} :
    \E r \in {recovery_step(severity, attempt, tm, commits)} :
      LET c1 == add_step_result(
                  [ctx EXCEPT !.last_error = e, !.last_severity = severity],
                  StepResult(ExecStepName(attempt), FALSE, <<>>, e, None))
      IN  /\ last_error' = e
          /\ team' = r.team
          /\ commits' = r.history
          /\ trace' = t0 \o r.events
          /\ IF severity = CRITICAL \/ attempt >= max_recoveries
             THEN \E x \in {AfterLoop(c1, e)} :
                    /\ ctx' = x.ctx
                    /\ result' = x.result
                    /\ pc' = "verifying"
                    /\ UNCHANGED attempt
             ELSE /\ ctx' = c1
                  /\ attempt' = attempt + 1
                  /\ UNCHANGED <<result, pc>>
          /\ Running
          /\ UNCHANGED <<frame, run, spec, verification, steps_before, callVars, queueVars, gitVars, loopVars, manifestVars>>

\* get_team() raises: no specialist agent could be created
TeamBuildFails ==
    /\ pc = "attempt"
    /\ team = "none"
    /\ HandleFailure(ErrNoAgents, "none", Append(trace, Ev("get_team", "failed", 0, <<>>)))

\* team.run(...) raises
DelegateRaises ==
    /\ pc = "attempt"
    /\ \E e \in DelegateErrors :
         HandleFailure(e, "built",
            trace \o <<get_team_event(team),
                       Ev("delegate", "raised", attempt,
                          task_description(spec, attempt, last_error))>>)

\* the StepResult of a successful attempt, never marked as a fallback
success_step_no_fallback(k, out) ==
    StepResult(ExecStepName(k), TRUE, Prefix(out, ErrorMsgLimit), None, None)

\* the StepResult of the successful attempt k
success_step(k, out) ==
    StepResult(ExecStepName(k), TRUE, Prefix(out, ErrorMsgLimit), None,
               IF k > 1 THEN TxtPlanoAlternativo ELSE None)

\* team.run(...) returns: checkpoint, StepResult, return result
DelegateReturns ==
    /\ pc = "attempt"
    /\ \E out \in DelegateOutputs :
         /\ result' = out
         /\ ctx' = add_step_result(ctx, success_step(attempt, out))
    /\ team' = "built"
    /\ commits' = checkpoint(commits, "Execucao bem-sucedida", attempt, None)
    /\ trace' = trace \o <<get_team_event(team),
                           Ev("delegate", "returned", attempt,
                              task_description(spec, attempt, last_error)),
                           Ev("checkpoint", "execucao", attempt, <<>>)>>
    /\ pc' = "verifying"
    /\ Running
    /\ UNCHANGED <<frame, run, attempt, last_error, spec, verification, steps_before,
                   callVars, queueVars, gitVars, loopVars, manifestVars>>

\* PHASE 4: VERIFYING (and "Re-verify" of _recover_and_replan)
Verify ==
    /\ pc = "verifying"
    /\ LET tr == transition(ctx, VERIFYING)
       IN  IF ~tr.ok
           THEN /\ Finish(RaiseInvalid(frame, ctx, VERIFYING))
                /\ UNCHANGED <<ctx, verification, trace>>
           ELSE \E v \in {_verify_output(result)} :
                    /\ ctx' = tr.ctx
                    /\ verification' = v
                    /\ trace' = Append(trace, EvTransition(VERIFYING))
                    /\ pc' = IF v.passed THEN "passed" ELSE "failed_verification"
                    /\ Running
    /\ UNCHANGED <<frame, run, attempt, last_error, spec, result, team, commits,
                   steps_before, callVars, queueVars, gitVars, loopVars, manifestVars>>

\* verification passed: tagged checkpoint, COMPLETED, return result
Complete ==
    /\ pc = "passed"
    /\ LET kind == IF frame = "execute" THEN "done" ELSE "recovered"
           tr == transition(ctx, COMPLETED)
       IN  /\ commits' = checkpoint(commits,
                            IF frame = "execute"
                            THEN "Verificacao aprovada - tarefa concluida"
                            ELSE "Recuperacao bem-sucedida",
                            0, Tag(kind, ctx.task_id))
           /\ IF ~tr.ok
              THEN /\ Finish(RaiseInvalid(frame, ctx, COMPLETED))
                   /\ trace' = Append(trace, Ev("checkpoint", kind, 0, <<>>))
                   /\ UNCHANGED ctx
              ELSE /\ ctx' = IF frame = "execute"
                             THEN [tr.ctx EXCEPT !.final_output = result]
                             ELSE tr.ctx
                   /\ Return(result)
                   /\ trace' = trace \o <<Ev("checkpoint", kind, 0, <<>>),
                                          EvTransition(COMPLETED)>>
    /\ UNCHANGED <<frame, run, attempt, last_error, spec, result, verification, team,
                   steps_before, callVars, queueVars, gitVars, loopVars, manifestVars>>

\* verification failed: ROLLING_BACK and git.rollback(steps=1)
RollBack ==
    /\ pc = "failed_verification"
    /\ LET tr == transition(ctx, ROLLING_BACK)
           rb == rollback(commits, 1)
       IN  IF ~tr.ok
           THEN /\ Finish(RaiseInvalid(frame, ctx, ROLLING_BACK))
                /\ UNCHANGED <<ctx, commits, trace>>
           ELSE /\ ctx' = tr.ctx
                /\ commits' = rb.history
                /\ trace' = trace \o <<EvTransition(ROLLING_BACK),
                                       Ev("rollback", IF rb.ok THEN "ok" ELSE "failed",
                                          1, <<>>)>>
                /\ pc' = "rolled_back"
                /\ Running
    /\ UNCHANGED <<frame, run, attempt, last_error, spec, result, verification, team,
                   steps_before, callVars, queueVars, gitVars, loopVars, manifestVars>>

\* RECOVERING, with _recover_and_replan calling itself after a second
\* verification failure
Recover_again ==
    /\ pc = "rolled_back"
    /\ LET tr == transition(ctx, RECOVERING)
       IN  IF ~tr.ok
           THEN /\ Finish(RaiseInvalid(frame, ctx, RECOVERING))
                /\ UNCHANGED <<ctx, trace>>
           ELSE /\ ctx' = tr.ctx
                /\ trace' = Append(trace, EvTransition(RECOVERING))
                /\ pc' = "replan"
                /\ Running
    /\ UNCHANGED <<frame, run, attempt, last_error, spec, result, verification, team,
                   commits, steps_before, callVars, queueVars, gitVars, loopVars, manifestVars>>

\* RECOVERING; execute then calls _recover_and_replan, while
\* _recover_and_replan returns the escalation message
Recover ==
    /\ pc = "rolled_back"
    /\ LET tr == transition(ctx, RECOVERING)
       IN  IF ~tr.ok
           THEN /\ Finish(RaiseInvalid(frame, ctx, RECOVERING))
                /\ UNCHANGED <<ctx, trace>>
           ELSE /\ ctx' = tr.ctx
                /\ trace' = Append(trace, EvTransition(RECOVERING))
                /\ IF frame = "execute"
                   THEN /\ pc' = "replan"
                        /\ Running
                   ELSE Return(_escalate(tr.ctx, verification.reason))
    /\ UNCHANGED <<frame, run, attempt, last_error, spec, result, verification, team,
                   commits, steps_before, callVars, queueVars, gitVars, loopVars, manifestVars>>

\* _recover_and_replan up to its call of _execute_with_recovery
Replan ==
    /\ pc = "replan"
    /\ LET c1 == [ctx EXCEPT !.recovery_attempts = @ + 1]
           req == enriched_request(Request, verification.reason, c1.recovery_attempts)
       IN  IF c1.recovery_attempts > max_recoveries
           THEN LET tr == transition(c1, ESCALATED)
                IN  /\ ctx' = tr.ctx
                    /\ IF tr.ok THEN Return(_escalate(tr.ctx, tr.ctx.last_error))
                       ELSE Finish(RaiseInvalid("execute", c1, ESCALATED))
                    /\ trace' = IF tr.ok THEN Append(trace, EvTransition(ESCALATED))
                                ELSE trace
                    /\ UNCHANGED <<commits, spec>>
           ELSE LET tr == transition(c1, PLANNING)
                IN  IF ~tr.ok
                    THEN /\ ctx' = c1
                         /\ Finish(RaiseInvalid("replan", c1, PLANNING))
                         /\ UNCHANGED <<commits, spec, trace>>
                    ELSE \E o \in generate_task_spec(req) :
                           LET t1 == trace \o <<EvTransition(PLANNING),
                                                Ev("plan", "", 0, req)>>
                           IN  /\ ctx' = tr.ctx
                               /\ IF o.raised
                                  THEN /\ Finish(Raise("replan", tr.ctx, "Exception", o.error))
                                       /\ trace' = t1
                                       /\ UNCHANGED <<commits, spec>>
                                  ELSE /\ commits' = checkpoint(commits,
                                                        "Replano apos recuperacao",
                                                        c1.recovery_attempts, None)
                                       /\ spec' = o.spec
                                       /\ trace' = Append(t1, Ev("checkpoint", "replano",
                                                                 c1.recovery_attempts, <<>>))
                                       /\ pc' = "executing"
                                       /\ Running
    /\ frame' = "replan"
    /\ UNCHANGED <<run, attempt, last_error, result, verification, team, steps_before,
                   callVars, queueVars, gitVars, loopVars, manifestVars>>

Next ==
    \/ Start
    \/ Analyze
    \/ Plan
    \/ BeginExecute
    \/ TeamBuildFails
    \/ DelegateRaises
    \/ DelegateReturns
    \/ Verify
    \/ Complete
    \/ RollBack
    \/ Recover
    \/ Replan

Spec == Init /\ [][Next]_vars

(***************************************************************************)
(* classify_error as a function of its argument.                           *)
(***************************************************************************)
\* number of fragments an error text is put together from
MaxFragments == 3

FragTimeout == <<"t","i","m","e","o","u","t">>
FragPermission == <<"p","e","r","m","i","s","s","i","o","n"," ","d","e","n","i","e","d">>
FragDeadlock == <<"d","e","a","d","l","o","c","k">>

Fragments ==
    { FragTimeout,
      <<"R","a","t","e"," ","L","i","m","i","t",":"," ">>,
      FragPermission,
      <<"i","m","p","o","r","t"," ">>,
      FragDeadlock,
      <<"D","i","s","k"," ","F","u","l","l",";">>,
      <<"b","o","o","m"," ">> }

RECURSIVE FragmentTexts(_)
FragmentTexts(n) ==
    IF n = 0 THEN {<<>>}
    ELSE {f \o t : f \in Fragments, t \in FragmentTexts(n - 1)}

ClassifyInputs == UNION {FragmentTexts(n) : n \in 0..MaxFragments}

InitClassify ==
    /\ InitExec
    /\ InitStore
    /\ arg \in ClassifyInputs
    /\ ret = <<>>
    /\ called = FALSE

Classify ==
    /\ ~called
    /\ ret' = classify_error(arg)
    /\ called' = TRUE
    /\ UNCHANGED <<arg, execVars, queueVars, gitVars, loopVars, manifestVars>>

NextClassify == Classify

SpecClassify == InitClassify /\ [][NextClassify]_vars

(***************************************************************************)
(* TaskContext.transition as a function of the state and the target.       *)
(***************************************************************************)
InitTransition ==
    /\ InitExec
    /\ InitStore
    /\ arg \in {[ctx |-> [TaskContext(0) EXCEPT !.state = s], to_state |-> t] :
                  s \in TaskState, t \in TaskState}
    /\ ret = <<>>
    /\ called = FALSE

Transition ==
    /\ ~called
    /\ ret' = transition(arg.ctx, arg.to_state)
    /\ called' = TRUE
    /\ UNCHANGED <<arg, execVars, queueVars, gitVars, loopVars, manifestVars>>

NextTransition == Transition

SpecTransition == InitTransition /\ [][NextTransition]_vars

(***************************************************************************)
(* _verify_output as a function of the result text.                        *)
(***************************************************************************)
\* number of parts a result text is put together from
MaxParts == 4

PartBlank == <<" "," "," ">>
PartError == <<"E","r","r","o","r",":"," ">>
PartTraceback == <<"T","r","a","c","e","b","a","c","k"," ">>
PartFalhou == <<"F","A","L","H","O","U"," ">>
PartReport == <<"r","e","l","a","t","o","r","i","o"," ","p","r","o","n","t","o">>
PartOk == <<"o","k">>

ResultParts == {PartBlank, PartError, PartTraceback, PartFalhou, PartReport, PartOk}

RECURSIVE PartTexts(_)
PartTexts(n) ==
    IF n = 0 THEN {<<>>}
    ELSE {f \o t : f \in ResultParts, t \in PartTexts(n - 1)}

VerifyInputs == UNION {PartTexts(n) : n \in 0..MaxParts}

InitVerify ==
    /\ InitExec
    /\ InitStore
    /\ arg \in VerifyInputs
    /\ ret = <<>>
    /\ called = FALSE

\* self._verify_output(ctx, result): ctx is not read or written
VerifyOutput ==
    /\ ~called
    /\ ret' = _verify_output(arg)
    /\ called' = TRUE
    /\ UNCHANGED <<arg, execVars, queueVars, gitVars, loopVars, manifestVars>>

NextVerify == VerifyOutput

SpecVerify == InitVerify /\ [][NextVerify]_vars

(***************************************************************************)
(* The failure outcomes of execute as functions of the task context and    *)
(* the error: what each path that ends in a failure message returns.       *)
(***************************************************************************)
\* step histories a failing task may have
FailHistories ==
    { <<>>,
      <<StepResult(TxtAnalise, TRUE, TxtSpecGerada, None, None)>>,
      <<StepResult(TxtAnalise, TRUE, TxtSpecGerada, None, None),
        StepResult(TxtPlanejamento, TRUE, <<>>, None, None),
        StepResult(ExecStepName(1), FALSE, <<>>, ErrConnRefused, None)>>,
      <<StepResult(TxtAnalise, TRUE, TxtSpecGerada, None, None),
        StepResult(TxtPlanejamento, TRUE, <<>>, None, None),
        StepResult(ExecStepName(1), FALSE, <<>>, ErrOutOfMemory, None),
        StepResult(ExecStepName(2), TRUE, OutShort, None, TxtPlanoAlternativo)>> }

FailContexts ==
    { [TaskContext(1) EXCEPT !.state = s, !.steps_completed = h] :
        s \in TaskState, h \in FailHistories }

FailErrors == {None, ErrConnRefused, ErrOutOfMemory, ErrLong, TxtMuitoCurto}

\* the paths of execute that end in a failure message
FailPaths ==
    {"exhausted", "reverify", "exception", "replan_exception",
     "invalid_transition", "replan_invalid_transition"}

\* what the path returns for the task context c, the error err and, for an
\* invalid transition, the refused target
failure_outcome(path, c, err, to_state) ==
    CASE path = "exhausted" -> AfterLoop(c, err).result
      [] path = "reverify" -> _escalate(c, err)
      [] path = "exception" -> Raise("execute", c, "Exception", err).returned
      [] path = "replan_exception" -> Raise("replan", c, "Exception", err).returned
      [] path = "invalid_transition" -> RaiseInvalid("execute", c, to_state).returned
      [] path = "replan_invalid_transition" -> RaiseInvalid("replan", c, to_state).returned

InitEscalate ==
    /\ InitExec
    /\ InitStore
    /\ arg \in [path : FailPaths, ctx : FailContexts, error : FailErrors,
                to_state : {ANALYZING, ESCALATED}]
    /\ ret = <<>>
    /\ called = FALSE

Escalate ==
    /\ ~called
    /\ ret' = failure_outcome(arg.path, arg.ctx, arg.error, arg.to_state)
    /\ called' = TRUE
    /\ UNCHANGED <<arg, execVars, queueVars, gitVars, loopVars, manifestVars>>

NextEscalate == Escalate

SpecEscalate == InitEscalate /\ [][NextEscalate]_vars

(***************************************************************************)
(* PersistentTaskQueue: one action per method call.  A call of the store   *)
(* may fail (fault); a process that died makes no further call.  The       *)
(* calls read the clock; time passes between the two calls of Replay only, *)
(* where the time of the call could show in the result.                    *)
(***************************************************************************)
\* number of enqueue calls
MaxTasks == 2

\* number of checkpoint and mark_* calls
MaxMarks == 1

\* the pending-stream entry written by enqueue
StreamEntry(task_id, now) ==
    [task_id |-> task_id, user_id |-> UserId, capability |-> Capability,
     payload |-> json_dumps_payload(Payload),
     original_request |-> Prefix(Request, RequestEntryLimit),
     enqueued_at |-> now]

\* the "enqueued" event logged by enqueue
EnqueuedEvent(task_id, now) ==
    TaskEvent("enqueued",
              [user_id |-> UserId, capability |-> Capability, payload |-> Payload,
               original_request |-> Prefix(Request, RequestEventLimit)],
              "", task_id, now)

\* enqueue(user_id, capability, payload, original_request)
Enqueue ==
    /\ Len(event_log) < MaxTasks
    /\ \E fault \in {"none", "xadd", "log"} :
         LET task_id == Len(event_log) + 1
         IN  IF fault = "xadd"
             THEN /\ event_log' = Append(event_log, <<>>)
                  /\ qret' = Call("enqueue", "", task_id, 0, fault, TRUE, <<>>)
                  /\ UNCHANGED <<stream, enqueued>>
             ELSE \E w \in {_log_event(Append(event_log, <<>>), task_id,
                                       EnqueuedEvent(task_id, clock), fault = "log")} :
                  /\ stream' = xadd(stream, StreamEntry(task_id, clock))
                  /\ event_log' = w.log
                  /\ enqueued' = IF w.raised THEN enqueued ELSE enqueued \cup {task_id}
                  /\ qret' = Call("enqueue", "", task_id, Len(stream) + 1, fault, w.raised,
                                  IF w.raised THEN <<>> ELSE <<task_id>>)
    /\ UNCHANGED <<inflight, last_delivered, pel, clock, alive, marks, deliveries,
                   ack_called>>
    /\ UNCHANGED <<execVars, callVars, gitVars, loopVars, manifestVars>>

\* the task_data dict claim_next builds from a message
task_data(m) ==
    [message_id |-> m.message_id,
     task_id |-> m.fields.task_id,
     user_id |-> m.fields.user_id,
     capability |-> m.fields.capability,
     payload |-> json_loads(Get(m.fields, "payload", <<"json", EmptyDict>>)),
     original_request |-> Get(m.fields, "original_request", <<>>)]

\* claim_next() by worker w
ClaimNext(w) ==
    /\ w \in alive
    /\ \E fault \in {"none", "read", "log"} :
         IF fault = "read"
         THEN /\ qret' = Call("claim_next", w, NoTask, 0, fault, FALSE, <<>>)
              /\ UNCHANGED <<last_delivered, pel, event_log, deliveries>>
         ELSE \E r \in {xreadgroup(stream, last_delivered, pel, w)} :
              /\ last_delivered' = r.last_delivered
              /\ pel' = r.pel
              /\ IF r.messages = <<>>
                 THEN /\ qret' = Call("claim_next", w, NoTask, 0, fault, FALSE, <<>>)
                      /\ UNCHANGED <<event_log, deliveries>>
                 ELSE \E td \in {task_data(r.messages[1])} :
                      \E l \in {_log_event(event_log, td.task_id,
                                           TaskEvent("claimed", EmptyDict, w, td.task_id,
                                                     clock),
                                           fault = "log")} :
                      /\ event_log' = l.log
                      /\ IF l.raised
                         THEN /\ qret' = Call("claim_next", w, td.task_id, td.message_id,
                                              fault, FALSE, <<>>)
                              /\ UNCHANGED deliveries
                         ELSE /\ qret' = Call("claim_next", w, td.task_id, td.message_id,
                                              fault, FALSE, <<td>>)
                              /\ deliveries' = Append(deliveries,
                                                 [message_id |-> td.message_id,
                                                  task_id |-> td.task_id,
                                                  worker |-> w])
    /\ UNCHANGED <<inflight, stream, clock, alive, marks, enqueued, ack_called>>
    /\ UNCHANGED <<execVars, callVars, gitVars, loopVars, manifestVars>>

\* ack(message_id)
Ack(message_id) ==
    /\ alive # {}
    /\ message_id \in 1..Len(stream)
    /\ \E fault \in {"none", "xack"} :
         /\ pel' = IF fault = "xack" THEN pel ELSE xack(pel, message_id)
         /\ qret' = Call("ack", "", NoTask, message_id, fault, FALSE, <<>>)
    /\ ack_called' = ack_called \cup {message_id}
    /\ UNCHANGED <<inflight, stream, last_delivered, event_log, clock, alive, marks,
                   deliveries,
                   enqueued>>
    /\ UNCHANGED <<execVars, callVars, gitVars, loopVars, manifestVars>>

\* checkpoint and mark_*: one event of type event_type appended to the log of
\* task_id by the queue object of worker w, whoever holds the claim
Mark(op, event_type, w, task_id, data) ==
    /\ w \in alive
    /\ task_id \in 1..Len(event_log)
    /\ marks < MaxMarks
    /\ \E fault \in {"none", "log"} :
       \E l \in {_log_event(event_log, task_id,
                            TaskEvent(event_type, data, w, task_id, clock),
                            fault = "log")} :
         /\ event_log' = l.log
         /\ qret' = Call(op, w, task_id, 0, fault, l.raised, <<>>)
    /\ marks' = marks + 1
    /\ UNCHANGED <<inflight, stream, last_delivered, pel, clock, alive, deliveries, enqueued,
                   ack_called>>
    /\ UNCHANGED <<execVars, callVars, gitVars, loopVars, manifestVars>>

\* checkpoint(task_id, step)
Checkpoint(w, task_id) ==
    Mark("checkpoint", "checkpoint", w, task_id, [step |-> "plan"])

\* mark_started(task_id)
MarkStarted(w, task_id) ==
    Mark("mark_started", "started", w, task_id, EmptyDict)

\* mark_completed(task_id, result)
MarkCompleted(w, task_id) ==
    Mark("mark_completed", "completed", w, task_id,
         [result |-> Prefix(OutGood, ResultLimit)])

\* mark_failed(task_id, error)
MarkFailed(w, task_id) ==
    Mark("mark_failed", "failed", w, task_id,
         [error |-> Prefix(ErrConnRefused, ResultLimit)])

\* mark_recovered(task_id)
MarkRecovered(w, task_id) ==
    Mark("mark_recovered", "recovered", w, task_id, EmptyDict)

\* recover_state(task_id)
RecoverState(task_id) ==
    /\ alive # {}
    /\ task_id \in 1..Len(event_log)
    /\ \E fault \in {"none", "events"} :
         qret' = Call("recover_state", "", task_id, 0, fault, FALSE,
                      <<recover_state(event_log, task_id, clock, fault = "events")>>)
    /\ UNCHANGED <<inflight, stream, last_delivered, pel, event_log, clock, alive, marks,
                   deliveries, enqueued, ack_called>>
    /\ UNCHANGED <<execVars, callVars, gitVars, loopVars, manifestVars>>

\* get_unfinished_tasks()
GetUnfinished ==
    /\ alive # {}
    /\ \E fault \in {"none", "xpending", "xrange", "events"} :
         qret' = Call("get_unfinished_tasks", "", NoTask, 0, fault, FALSE,
                      get_unfinished_tasks(stream, pel, event_log, clock, fault))
    /\ UNCHANGED <<inflight, stream, last_delivered, pel, event_log, clock, alive, marks,
                   deliveries, enqueued, ack_called>>
    /\ UNCHANGED <<execVars, callVars, gitVars, loopVars, manifestVars>>

\* the process of worker w dies while it holds a claim (a worker that dies
\* idle is a worker that makes no further call)
Die(w) ==
    /\ w \in alive
    /\ \E e \in pel : e.consumer = w
    /\ alive' = alive \ {w}
    /\ UNCHANGED <<inflight, stream, last_delivered, pel, event_log, clock, marks, deliveries,
                   enqueued, ack_called, qret>>
    /\ UNCHANGED <<execVars, callVars, gitVars, loopVars, manifestVars>>

NextQueue ==
    \/ Enqueue
    \/ \E w \in Workers : ClaimNext(w)
    \/ \E m \in 1..MaxTasks : Ack(m)
    \/ \E w \in Workers, t \in 1..MaxTasks : Checkpoint(w, t)
    \/ \E w \in Workers, t \in 1..MaxTasks : MarkStarted(w, t)
    \/ \E w \in Workers, t \in 1..MaxTasks : MarkCompleted(w, t)
    \/ \E w \in Workers, t \in 1..MaxTasks : MarkFailed(w, t)
    \/ \E w \in Workers, t \in 1..MaxTasks : MarkRecovered(w, t)
    \/ \E w \in Workers : Die(w)

SpecQueue == Init /\ [][NextQueue]_vars

\* a live worker keeps calling claim_next
SpecQueueLive ==
    SpecQueue /\ \A w \in Workers : WF_vars(ClaimNext(w))

(***************************************************************************)
(* enqueue as its two writes to the store, which the calls of the workers  *)
(* can come between: the XADD to the pending stream (task_queue.py:164)    *)
(* and the XADD of the "enqueued" event (178).  A worker marks only a task *)
(* that claim_next returned to it.                                         *)
(***************************************************************************)
\* enqueue up to the XADD to the pending stream: the task id is drawn and the
\* entry added; a failure of the store goes to the caller
EnqueueAdd ==
    /\ inflight = NoTask
    /\ Len(event_log) < MaxTasks
    /\ \E fault \in {"none", "xadd"} :
         LET task_id == Len(event_log) + 1
         IN  /\ event_log' = Append(event_log, <<>>)
             /\ IF fault = "xadd"
                THEN /\ qret' = Call("enqueue", "", task_id, 0, fault, TRUE, <<>>)
                     /\ UNCHANGED <<stream, inflight>>
                ELSE /\ stream' = xadd(stream, StreamEntry(task_id, clock))
                     /\ inflight' = task_id
                     /\ UNCHANGED qret
    /\ UNCHANGED <<last_delivered, pel, clock, alive, marks, deliveries, enqueued,
                   ack_called>>
    /\ UNCHANGED <<execVars, callVars, gitVars, loopVars, manifestVars>>

\* the rest of enqueue: the "enqueued" event is logged and the id returned
EnqueueLog ==
    /\ inflight # NoTask
    /\ \E fault \in {"none", "log"} :
       \E w \in {_log_event(event_log, inflight, EnqueuedEvent(inflight, clock),
                            fault = "log")} :
         /\ event_log' = w.log
         /\ enqueued' = enqueued \cup {inflight}
         /\ qret' = Call("enqueue", "", inflight,
                         CHOOSE m \in 1..Len(stream) : stream[m].task_id = inflight,
                         fault, w.raised, <<inflight>>)
    /\ inflight' = NoTask
    /\ UNCHANGED <<stream, last_delivered, pel, clock, alive, marks, deliveries,
                   ack_called>>
    /\ UNCHANGED <<execVars, callVars, gitVars, loopVars, manifestVars>>

\* claim_next returned task_id to worker w
Delivered(w, task_id) ==
    \E i \in 1..Len(deliveries) :
        deliveries[i].worker = w /\ deliveries[i].task_id = task_id

NextEnqueue ==
    \/ EnqueueAdd
    \/ EnqueueLog
    \/ \E w \in Workers : ClaimNext(w)
    \/ \E w \in Workers, t \in 1..MaxTasks : Delivered(w, t) /\ Checkpoint(w, t)
    \/ \E w \in Workers, t \in 1..MaxTasks : Delivered(w, t) /\ MarkStarted(w, t)
    \/ \E w \in Workers, t \in 1..MaxTasks : Delivered(w, t) /\ MarkCompleted(w, t)
    \/ \E w \in Workers, t \in 1..MaxTasks : Delivered(w, t) /\ MarkFailed(w, t)
    \/ \E w \in Workers, t \in 1..MaxTasks : Delivered(w, t) /\ MarkRecovered(w, t)

SpecEnqueue == Init /\ [][NextEnqueue]_vars

(***************************************************************************)
(* TaskState.replay as a function of the event list: the same list is      *)
(* folded twice, at different times.                                       *)
(***************************************************************************)
\* length of the event lists folded
MaxEvents == 3

\* the events a list is made of, before they are given their timestamps
EventKinds ==
    { [event_type |-> "enqueued", worker_id |-> "",
       data |-> [user_id |-> UserId, capability |-> Capability, payload |-> Payload]],
      [event_type |-> "claimed", worker_id |-> "w1", data |-> EmptyDict],
      [event_type |-> "started", worker_id |-> "w1", data |-> EmptyDict],
      [event_type |-> "progressed", worker_id |-> "w1", data |-> EmptyDict],
      [event_type |-> "checkpoint", worker_id |-> "w1", data |-> [step |-> "plan"]],
      [event_type |-> "completed", worker_id |-> "w2", data |-> [result |-> OutGood]],
      [event_type |-> "failed", worker_id |-> "w1", data |-> [error |-> ErrConnRefused]],
      [event_type |-> "recovered", worker_id |-> "w2", data |-> EmptyDict],
      [event_type |-> "archived", worker_id |-> "", data |-> EmptyDict] }

RECURSIVE KindLists(_)
KindLists(n) ==
    IF n = 0 THEN {<<>>}
    ELSE {Append(l, k) : l \in KindLists(n - 1), k \in EventKinds}

\* the TaskEvent objects of a list of kinds, created one per tick of the clock
EventList(kinds) ==
    SubSeq([i \in 1..Len(kinds) |->
              TaskEvent(kinds[i].event_type, kinds[i].data, kinds[i].worker_id, 1, i)],
           1, Len(kinds))

ReplayInputs ==
    {[task_id |-> 1, events |-> EventList(l)] :
       l \in UNION {KindLists(n) : n \in 0..MaxEvents}}

InitReplay ==
    /\ InitExec
    /\ InitStore
    /\ arg \in ReplayInputs
    /\ ret = <<>>
    /\ called = FALSE

\* TaskState.replay(task_id, events), called a first and a second time
Replay ==
    /\ Len(ret) < 2
    /\ ret' = Append(ret, replay(arg.task_id, arg.events, clock))
    /\ called' = TRUE
    /\ clock' = clock + Len(arg.events) + 1
    /\ UNCHANGED <<arg, execVars, inflight, stream, last_delivered, pel, event_log, alive, marks,
                   deliveries, enqueued, ack_called, qret, gitVars, loopVars, manifestVars>>

NextReplay == Replay

SpecReplay == InitReplay /\ [][NextReplay]_vars

(***************************************************************************)
(* get_unfinished_tasks as a function of the store: stores with many       *)
(* delivered entries.                                                      *)
(***************************************************************************)
\* number of entries of the pending stream
MaxPending == 52

\* what became of entry i in the store of pattern p: 0 claimed and being
\* processed, 1 completed and acknowledged, 2 completed and not acknowledged,
\* 3 failed and not acknowledged; pattern 4 has every entry being processed
EntryKind(i, p) == IF p = 4 THEN 0 ELSE (i + p) % 4

\* the event log of task i in a store of n entries, d of them delivered
EntryLog(i, n, d, p) ==
    LET k == EntryKind(i, p)
        enq == <<to_redis(EnqueuedEvent(i, i))>>
        clm == <<to_redis(TaskEvent("claimed", EmptyDict, "w1", i, n + i)),
                 to_redis(TaskEvent("started", EmptyDict, "w1", i, 2 * n + i))>>
        fin == IF k \in {1, 2}
               THEN <<to_redis(TaskEvent("completed",
                                         [result |-> Prefix(OutGood, ResultLimit)],
                                         "w1", i, 3 * n + i))>>
               ELSE IF k = 3
               THEN <<to_redis(TaskEvent("failed",
                                         [error |-> Prefix(ErrConnRefused, ResultLimit)],
                                         "w1", i, 3 * n + i))>>
               ELSE <<>>
    IN  IF i > d THEN enq ELSE enq \o clm \o fin

\* n tasks enqueued, the first d claimed by w1 and treated as the pattern says
InitUnfinished ==
    /\ InitExec
    /\ arg = <<>>
    /\ ret = <<>>
    /\ called = FALSE
    /\ \E n \in 0..MaxPending, u \in 0..1, p \in 0..4 :
         LET d == IF n >= u THEN n - u ELSE 0
         IN  /\ stream = SubSeq([i \in 1..n |-> StreamEntry(i, i)], 1, n)
             /\ last_delivered = d
             /\ pel = {[message_id |-> i, consumer |-> "w1"] :
                         i \in {j \in 1..d : EntryKind(j, p) # 1}}
             /\ event_log = SubSeq([i \in 1..n |-> EntryLog(i, n, d, p)], 1, n)
             /\ clock = 4 * n + 1
             /\ deliveries = SubSeq([i \in 1..d |->
                                       [message_id |-> i, task_id |-> i, worker |-> "w1"]],
                                    1, d)
             /\ enqueued = 1..n
             /\ ack_called = {j \in 1..d : EntryKind(j, p) = 1}
    /\ alive = Workers
    /\ marks = 0
    /\ qret = NoCall
    /\ inflight = NoTask

NextUnfinished ==
    \/ GetUnfinished
    \/ \E t \in 1..MaxTasks : RecoverState(t)

SpecUnfinished == InitUnfinished /\ [][NextUnfinished]_vars

(***************************************************************************)
(* GitCheckpoint: the calls on one task directory, with writes to its      *)
(* files in between.                                                       *)
(***************************************************************************)
\* the repository in this state
ThisRepo == Repo(worktree, index, objects, head)

\* the repository becomes r
SetRepo(r) ==
    /\ worktree' = r.worktree
    /\ index' = r.index
    /\ objects' = r.objects
    /\ head' = r.head

\* init_repo(task_dir), once, on the empty task directory
InitRepo ==
    /\ objects = <<>>
    /\ gret.op = "none"
    /\ \E fault \in {"none", "init"} :
       \E c \in {git_init_repo(ThisRepo, fault)} :
         /\ SetRepo(c.repo)
         /\ gret' = GitCall("init_repo", 0, fault, c.ok, NoCommit)
    /\ UNCHANGED <<execVars, callVars, queueVars, loopVars, manifestVars>>

\* the task writes or deletes a file of the working directory
WriteFile(f, v) ==
    /\ objects # <<>>
    /\ worktree[f] # v
    /\ worktree' = [worktree EXCEPT ![f] = v]
    /\ gret' = GitCall("write", 0, "none", TRUE, NoCommit)
    /\ UNCHANGED <<index, objects, head>>
    /\ UNCHANGED <<execVars, callVars, queueVars, loopVars, manifestVars>>

\* checkpoint(message)
CheckpointRepo ==
    /\ objects # <<>>
    /\ Len(objects) < MaxCommits
    /\ \E fault \in {"none", "add", "status", "commit", "rev-parse"} :
       \E c \in {git_checkpoint(ThisRepo, fault)} :
         /\ SetRepo(c.repo)
         /\ gret' = GitCall("checkpoint", 0, fault, c.hash # NoCommit, c.hash)
    /\ UNCHANGED <<execVars, callVars, queueVars, loopVars, manifestVars>>

\* rollback(steps)
RollbackRepo(steps) ==
    /\ objects # <<>>
    /\ \E fault \in {"none", "reset"} :
       \E c \in {git_rollback(ThisRepo, steps, fault = "reset")} :
         /\ SetRepo(c.repo)
         /\ gret' = GitCall("rollback", steps, fault, c.ok, NoCommit)
    /\ UNCHANGED <<execVars, callVars, queueVars, loopVars, manifestVars>>

\* rollback_to_commit(commit_hash)
RollbackToCommit(commit_hash) ==
    /\ objects # <<>>
    /\ \E fault \in {"none", "reset"} :
       \E c \in {git_rollback_to_commit(ThisRepo, commit_hash, fault = "reset")} :
         /\ SetRepo(c.repo)
         /\ gret' = GitCall("rollback_to_commit", commit_hash, fault, c.ok, NoCommit)
    /\ UNCHANGED <<execVars, callVars, queueVars, loopVars, manifestVars>>

NextGit ==
    \/ InitRepo
    \/ \E f \in Files, v \in 0..MaxVersion : WriteFile(f, v)
    \/ CheckpointRepo
    \/ \E steps \in 1..MaxCommits : RollbackRepo(steps)
    \/ \E commit_hash \in 1..MaxCommits + 1 : RollbackToCommit(commit_hash)

SpecGit == Init /\ [][NextGit]_vars

(***************************************************************************)
(* AgentLoop.run: one turn.                                                *)
(***************************************************************************)
\* self._sessions.append(user_id, message, session_id) in this state: the
\* write succeeds, or fails if the run may still see a failure
PersistTo(file, message) ==
    \E fault \in {FALSE} \cup {write_faults < MaxWriteFaults} :
      /\ session' = append(file, message, fault)
      /\ write_faults' = IF fault THEN write_faults + 1 ELSE write_faults

Persist(message) == PersistTo(session, message)

\* self._emit(...) and the calls of the collaborators, in order
Emit(events) == ltrace' = ltrace \o events

\* run returns text
ReturnText(text) ==
    /\ lret' = [done |-> TRUE, text |-> text]
    /\ lpc' = "done"

\* run(user_message, user_id, session_id, max_rounds) up to the loop, called
\* when the session file holds `file`: the context is built and the user
\* message persisted
RunStart(rounds, sane, file) ==
    /\ lpc = "idle"
    /\ max_rounds' = rounds
    /\ sanity_ok' = sane
    /\ \E history \in {load(file)} :
         /\ messages' = <<SystemMessage>> \o history \o <<UserMessage>>
         /\ base' = 1 + Len(history)
    /\ PersistTo(file, UserMessage)
    /\ Emit(<<LoopEvent("turn_start", 0, "", "")>>)
    /\ round_num' = 1
    /\ lpc' = "chat"
    /\ UNCHANGED <<pending, lret>>
    /\ UNCHANGED <<execVars, callVars, queueVars, gitVars, manifestVars>>

\* self._llm.chat raises LLMError
ChatFails ==
    /\ lpc = "chat"
    /\ in_range(round_num, max_rounds)
    /\ \E error_msg \in {Text("llm_error", "", {}, <<"timed", "out">>)} :
         /\ Persist(PlainMessage("assistant", error_msg))
         /\ ReturnText(error_msg)
    /\ Emit(<<LoopEvent("chat", round_num, "", ""),
              LoopEvent("error", round_num, "", "")>>)
    /\ UNCHANGED <<max_rounds, sanity_ok, round_num, messages, base, pending>>
    /\ UNCHANGED <<execVars, callVars, queueVars, gitVars, manifestVars>>

\* the response carries no tool calls: the final answer
ChatFinal ==
    /\ lpc = "chat"
    /\ in_range(round_num, max_rounds)
    /\ \E response \in FinalResponses :
       \E final_text \in {_sanity_check(IF response.content.words = <<>>
                                        THEN TxtTarefaConcluida
                                        ELSE response.content,
                                        ~sanity_ok)} :
         /\ Persist(PlainMessage("assistant", final_text))
         /\ ReturnText(final_text)
    /\ Emit(<<LoopEvent("chat", round_num, "", ""),
              LoopEvent("response", round_num, "", "")>>)
    /\ UNCHANGED <<max_rounds, sanity_ok, round_num, messages, base, pending>>
    /\ UNCHANGED <<execVars, callVars, queueVars, gitVars, manifestVars>>

\* the response carries tool calls: the assistant message is added
ChatToolCalls ==
    /\ lpc = "chat"
    /\ in_range(round_num, max_rounds)
    /\ \E response \in ToolResponses :
         /\ messages' = Append(messages, assistant_msg(response))
         /\ Persist(assistant_msg(response))
         /\ pending' = response.tool_calls
    /\ Emit(<<LoopEvent("chat", round_num, "", "")>>)
    /\ lpc' = "tools"
    /\ UNCHANGED <<max_rounds, sanity_ok, round_num, base, lret>>
    /\ UNCHANGED <<execVars, callVars, queueVars, gitVars, manifestVars>>

\* one pass of `for tc in response.tool_calls`
ExecuteTool ==
    /\ lpc = "tools"
    /\ pending # <<>>
    /\ \E tc \in {Head(pending)} :
       \E outcome \in IF has_tool(RegisteredTools, tc.name) /\ tc.arguments = "match"
                      THEN {"returns", "raises"} ELSE {"returns"} :
       \E known \in {has_tool(RegisteredTools, tc.name)} :
       \E res \in {IF ~known
                      THEN _handle_unknown_tool(RegisteredTools, tc.name, ~sanity_ok)
                      ELSE execute(RegisteredTools, tc.name, tc.arguments, outcome).text} :
         /\ Emit(<<LoopEvent("tool_start", round_num, tc.name, tc.id)>>
                 \o (IF known THEN <<LoopEvent("execute", round_num, tc.name, tc.id)>>
                     ELSE <<>>)
                 \o <<LoopEvent("tool_end", round_num, tc.name, tc.id)>>)
         /\ messages' = Append(messages, tool_result_msg(tc, res))
         /\ Persist(tool_result_msg(tc, res))
    /\ pending' = Tail(pending)
    /\ IF Len(pending) = 1
       THEN lpc' = "chat" /\ round_num' = round_num + 1
       ELSE UNCHANGED <<lpc, round_num>>
    /\ UNCHANGED <<max_rounds, sanity_ok, base, lret>>
    /\ UNCHANGED <<execVars, callVars, queueVars, gitVars, manifestVars>>

\* the rounds are exhausted
LimitReached ==
    /\ lpc = "chat"
    /\ ~in_range(round_num, max_rounds)
    /\ Persist(PlainMessage("assistant", timeout_msg))
    /\ ReturnText(timeout_msg)
    /\ UNCHANGED <<max_rounds, sanity_ok, round_num, messages, base, pending, ltrace>>
    /\ UNCHANGED <<execVars, callVars, queueVars, gitVars, manifestVars>>

\* the session file when run is called: empty, or holding an earlier turn
NextLoop ==
    \/ \E rounds \in 0..MaxRounds, sane \in BOOLEAN, file \in {<<>>, EarlierTurn} :
         RunStart(rounds, sane, file)
    \/ ChatFails
    \/ ChatFinal
    \/ ChatToolCalls
    \/ ExecuteTool
    \/ LimitReached

SpecLoop == Init /\ [][NextLoop]_vars

\* run is one coroutine that goes on until it returns
SpecLoopLive == SpecLoop /\ WF_vars(NextLoop)

(***************************************************************************)
(* ToolRegistry.execute taken alone.                                       *)
(***************************************************************************)
ExecuteInputs ==
    [tools : {{}, {"create_csv"}, {"create_csv", "run_sql"}},
     name : {"create_csv", "run_sql", "send_email"},
     arguments : {"match", "mismatch", "no_dict"},
     outcome : {"returns", "raises"}]

InitRegistry ==
    /\ InitExec
    /\ InitStore
    /\ arg \in ExecuteInputs
    /\ ret = <<>>
    /\ called = FALSE

RegistryExecute ==
    /\ ~called
    /\ ret' = <<execute(arg.tools, arg.name, arg.arguments, arg.outcome)>>
    /\ called' = TRUE
    /\ UNCHANGED <<arg, execVars, queueVars, gitVars, loopVars, manifestVars>>

NextRegistry == RegistryExecute

SpecRegistry == InitRegistry /\ [][NextRegistry]_vars

(***************************************************************************)
(* FrozenManifest: constructions, assignments and deletions on the object, *)
(* and the manifest file being written or removed in between.              *)
(***************************************************************************)
\* the manifest file is written with content v, or removed (NoFile)
WriteManifest(v) ==
    /\ manifest_file # v
    /\ manifest_file' = v
    /\ UNCHANGED <<_instance, manifest, mret>>
    /\ UNCHANGED <<execVars, callVars, queueVars, gitVars, loopVars>>

\* FrozenManifest()
Construct ==
    /\ \E r \in {__new__(_instance, manifest, manifest_file)} :
         /\ _instance' = r.instance
         /\ manifest' = r.obj
         /\ mret' = ManifestCall("construct", "", r.raised, r.raised = "")
    /\ UNCHANGED manifest_file
    /\ UNCHANGED <<execVars, callVars, queueVars, gitVars, loopVars>>

\* FrozenManifest._instance.name = value
SetAttr(name, value) ==
    /\ _instance # NoInstance
    /\ \E r \in {__setattr__(manifest, name, value)} :
         /\ manifest' = r.obj
         /\ mret' = ManifestCall("setattr", name, r.raised, FALSE)
    /\ UNCHANGED <<manifest_file, _instance>>
    /\ UNCHANGED <<execVars, callVars, queueVars, gitVars, loopVars>>

\* del FrozenManifest._instance.name
DelAttr(name) ==
    /\ _instance # NoInstance
    /\ \E r \in {__delattr__(manifest, name)} :
         /\ manifest' = r.obj
         /\ mret' = ManifestCall("delattr", name, r.raised, FALSE)
    /\ UNCHANGED <<manifest_file, _instance>>
    /\ UNCHANGED <<execVars, callVars, queueVars, gitVars, loopVars>>

NextManifest ==
    \/ \E v \in 0..MaxContents : WriteManifest(v)
    \/ Construct
    \/ \E name \in AttrNames, value \in 1..MaxContents : SetAttr(name, value)
    \/ \E name \in AttrNames : DelAttr(name)

SpecManifest == Init /\ [][NextManifest]_vars

(***************************************************************************)
(* Readings of the trace used by the properties.                           *)
(***************************************************************************)
IsTransitionEv(e) == e.ev = "transition"
IsDelegateEv(e) == e.ev = "delegate"
IsRollbackEv(e) == e.ev = "rollback"
IsSleepEv(e) == e.ev = "sleep"
IsPlanEv(e) == e.ev = "plan"
IsPhaseEv(e) == e.ev \in {"transition", "plan", "checkpoint", "delegate"}

\* the states the task went through, from Idle on
Visited ==
    LET ts == SelectSeq(trace, IsTransitionEv)
    IN  <<IDLE>> \o [i \in 1..Len(ts) |-> ts[i].s]

DelegateEvents == SelectSeq(trace, IsDelegateEv)

\* the transitions, planning calls, checkpoints and delegate invocations of
\* the trace, as <<kind, what>>
Shape ==
    LET es == SelectSeq(trace, IsPhaseEv)
    IN  [i \in 1..Len(es) |-> <<es[i].ev, es[i].s>>]

\* the calls the step being taken adds to the trace
NewEvents == SubSeq(trace', Len(trace) + 1, Len(trace'))

IsPrefixOf(s, t) == Len(s) <= Len(t) /\ SubSeq(t, 1, Len(s)) = s

Last(s) == s[Len(s)]

\* a call of execute is in progress
InExecute == pc \notin {"idle", "done"}

(***************************************************************************)
(* Properties.                                                             *)
(***************************************************************************)

\* C1: in every run of execute the task starts at Idle and every change of
\* its state is an edge of VALID_TRANSITIONS; the states recorded as visited
\* form a walk of the table ending at the current state.
C1_ValidWalk ==
    /\ [](pc # "idle" =>
            /\ Visited[1] = IDLE
            /\ Last(Visited) = ctx.state
            /\ \A i \in 1..(Len(Visited) - 1) :
                 Visited[i + 1] \in VALID_TRANSITIONS(Visited[i]))
    /\ [][/\ ~InExecute => ctx'.state = IDLE
          /\ InExecute /\ ctx'.state # ctx.state =>
               ctx'.state \in VALID_TRANSITIONS(ctx.state)]_vars

\* a run that failed verification, re-planned and then completed
C1_Witness ==
    pc = "done" /\ frame = "replan" /\ ctx.state = COMPLETED /\ Len(Visited) = 11

\* C2: transition(t) in state s sets the state to t exactly when t is an
\* allowed successor of s; otherwise, also for t = s, it raises
\* InvalidTransition and leaves the context as it was; it never returns
\* normally with the state unchanged.
C2_TransitionContract ==
    called =>
      LET s == arg.ctx.state
          t == arg.to_state
      IN  /\ t \in VALID_TRANSITIONS(s) => ret.ok /\ ret.ctx.state = t
          /\ t \notin VALID_TRANSITIONS(s) => ~ret.ok /\ ret.ctx = arg.ctx
          /\ t = s => ~ret.ok
          /\ ret.ok => ret.ctx.state # s

\* a transition to the state the task is already in was refused
C2_Witness ==
    called /\ arg.to_state = arg.ctx.state /\ ~ret.ok /\ ret.ctx.state = arg.ctx.state

\* C3: whatever the planning collaborator and the delegate do, execute ends by
\* returning a text; no exception goes through to its caller.
C3_AlwaysReturnsText ==
    /\ raised = None
    /\ pc = "done" => returned # None
    /\ InExecute => returned = None

\* the delegate raised on every one of its 2 * max_recoveries invocations
C3_Witness ==
    /\ pc = "done"
    /\ returned # None
    /\ Len(DelegateEvents) = 2 * max_recoveries
    /\ \A i \in 1..Len(DelegateEvents) : DelegateEvents[i].s = "raised"

\* the errors of the failed execution attempts, in order
FailedErrors ==
    LET failed == SelectSteps(ctx.steps_completed, FALSE)
    IN  [i \in 1..Len(failed) |-> failed[i].error]

\* C4: when the delegate raises "out of memory" (Severe) on every attempt up to
\* max_recoveries, execute ends with the task Escalated, not Completed, and the
\* returned message contains the progress summary and the truncated error.
C4_SevereExhaustionEscalates ==
    (/\ pc = "done"
     /\ Len(DelegateEvents) = max_recoveries
     /\ FailedErrors = [i \in 1..max_recoveries |-> ErrOutOfMemory])
    => /\ ctx.state = ESCALATED
       /\ Contains(returned, get_progress_summary(ctx))
       /\ Contains(returned, Prefix(ErrOutOfMemory, ErrorMsgLimit))

\* C5: whenever execute has returned, the task is Completed or Escalated.
C5_TerminalOutcome ==
    pc = "done" => ctx.state \in {COMPLETED, ESCALATED}

\* the number of times the task entered state s
TimesEntered(s) ==
    Cardinality({i \in 2..Len(Visited) : Visited[i] = s})

\* C6: every verification failure increments the recovery counter, and a run
\* that ends on a verification failure has re-planned max_recoveries times and
\* ends Escalated with the counter above max_recoveries.
C6_ReplansUntilBudget ==
    /\ pc = "done" => ctx.recovery_attempts = TimesEntered(ROLLING_BACK)
    /\ (pc = "done" /\ ~verification.passed /\ TimesEntered(ROLLING_BACK) > 0
        /\ Last(trace) = EvTransition(RECOVERING))
       => /\ ctx.state = ESCALATED
          /\ ctx.recovery_attempts > max_recoveries
          /\ Len(SelectSeq(trace, IsPlanEv)) = 1 + max_recoveries

\* an attempt of _execute_with_recovery fails in the step being taken
AttemptFails ==
    /\ pc = "attempt"
    /\ Len(ctx'.steps_completed) = Len(ctx.steps_completed) + 1
    /\ ~Last(ctx'.steps_completed).success

HasSignal(t, signals) == \E s \in signals : Contains(Lower(t), s)

\* C8: classify_error looks at the lower-cased text with the priority
\* transient > recoverable > severe and Recoverable as the default; "timeout"
\* is Transient, "permission denied" Recoverable, "deadlock" Severe.
C8_ClassifyPriority ==
    called =>
      LET tr == HasSignal(arg, transient_signals)
          rc == HasSignal(arg, recoverable_signals)
          sv == HasSignal(arg, severe_signals)
      IN  /\ ret \in {TRANSIENT, RECOVERABLE, SEVERE}
          /\ tr => ret = TRANSIENT
          /\ ~tr /\ rc => ret = RECOVERABLE
          /\ ~tr /\ ~rc /\ sv => ret = SEVERE
          /\ ~tr /\ ~rc /\ ~sv => ret = RECOVERABLE
          /\ arg = FragTimeout => ret = TRANSIENT
          /\ arg = FragPermission => ret = RECOVERABLE
          /\ arg = FragDeadlock => ret = SEVERE

\* a text with a recoverable and a severe signal, and no transient one
C8_Witness ==
    /\ called
    /\ ~HasSignal(arg, transient_signals)
    /\ HasSignal(arg, recoverable_signals)
    /\ HasSignal(arg, severe_signals)
    /\ ret = RECOVERABLE

\* the delegate returned on its first invocation and the output passed
FirstAttemptPasses ==
    /\ pc = "done"
    /\ frame = "execute"
    /\ DelegateEvents # <<>>
    /\ DelegateEvents[1].s = "returned"
    /\ verification.passed

IsSuccessBlock(block, k) ==
    /\ Len(block) = k
    /\ \A j \in 1..(k - 1) :
         /\ ~block[j].success
         /\ block[j].step_name = ExecStepName(j)
         /\ block[j].error # None
    /\ block[k].success
    /\ block[k].step_name = ExecStepName(k)
    /\ (block[k].fallback_used # None) <=> (k > 1)

\* C10: when attempts 1..k-1 fail and attempt k succeeds, the step history
\* gains exactly k-1 failed execution StepResults followed by one successful
\* one, in attempt order, the successful one marked as a fallback exactly when
\* k > 1; StepResults already appended never change; and if the output then
\* passes verification the task ends Completed.
C10_RetryHistory ==
    /\ [][InExecute => IsPrefixOf(ctx.steps_completed, ctx'.steps_completed)]_vars
    /\ [][(pc = "attempt" /\ pc' = "verifying" /\ Last(ctx'.steps_completed).success) =>
            /\ IsPrefixOf(steps_before, ctx'.steps_completed)
            /\ IsSuccessBlock(SubSeq(ctx'.steps_completed, Len(steps_before) + 1,
                                     Len(ctx'.steps_completed)), attempt)]_vars
    /\ []((pc = "done" /\ DelegateEvents # <<>> /\ Last(DelegateEvents).s = "returned"
           /\ verification.passed)
          => ctx.state = COMPLETED)

\* "connection refused" on attempt 1, success on attempt 2, Completed
C10_Witness ==
    /\ pc = "done" /\ frame = "execute" /\ ctx.state = COMPLETED
    /\ Len(ctx.steps_completed) = 4
    /\ ~ctx.steps_completed[3].success
    /\ ctx.steps_completed[3].error = ErrConnRefused
    /\ ctx.steps_completed[4].success
    /\ ctx.steps_completed[4].fallback_used = TxtPlanoAlternativo

\* the error text as the message shows it
ShownError(err) == IF err # None THEN Prefix(err, ErrorMsgLimit) ELSE TxtErroDesconhecido

\* msg is the escalation message for the context c and the error err: the
\* request for help, the problem truncated to ErrorMsgLimit characters, the
\* progress so far and, last, the suggestions
HasEscalationStructure(msg, c, err) ==
    /\ IsPrefixOf(TxtPreciso \o NL \o TxtProblema \o ShownError(err) \o NL, msg)
    /\ Len(err) > ErrorMsgLimit => ~Contains(msg, err)
    /\ Contains(msg, TxtProgresso \o get_progress_summary(c) \o NL)
    /\ Len(msg) >= Len(TxtSugestoes)
    /\ SubSeq(msg, Len(msg) - Len(TxtSugestoes) + 1, Len(msg)) = TxtSugestoes

\* the error a path reports: for an invalid transition, the text of the
\* InvalidTransition raised
ReportedError ==
    IF arg.path \in {"invalid_transition", "replan_invalid_transition"}
    THEN InvalidTransitionText(arg.ctx.state, arg.to_state)
    ELSE arg.error

EntryTask(message_id) == stream[message_id].task_id

\* the task ids of a list of projections
TaskIdsOf(states) == {states[i].task_id : i \in 1..Len(states)}

\* what get_unfinished_tasks() returns in this state of the store
UnfinishedNow ==
    TaskIdsOf(get_unfinished_tasks(stream, pel, event_log, clock, "none"))

\* the replayed status of a task in this state of the store
StatusOf(task_id) == recover_state(event_log, task_id, clock, FALSE).status

C13_ClaimedAtMostOnce ==
    \A i, j \in 1..Len(deliveries) :
      i # j => deliveries[i].message_id # deliveries[j].message_id

\* two entries went to two workers, one of them acknowledged since
C13_Witness ==
    /\ Len(deliveries) = 2
    /\ deliveries[1].worker # deliveries[2].worker
    /\ deliveries[1].message_id \in ack_called
    /\ deliveries[1].message_id \notin PelIds(pel)

\* C14: once enqueue has returned a task id, the pending stream holds the
\* task's entry and its event log the "enqueued" event: recover_state gives a
\* status other than "unknown", with the task's user and capability.
C14_EnqueueDurable ==
    \A t \in enqueued :
      /\ \E m \in 1..Len(stream) : EntryTask(m) = t
      /\ LET s == recover_state(event_log, t, clock, FALSE)
         IN  /\ s.status # "unknown"
             /\ s.user_id = UserId
             /\ s.capability = Capability

\* C15: when the store fails on enqueue's write of the pending stream or on
\* claim_next's read, the call raises; it does not return normally.
C15_StoreFailurePropagates ==
    /\ (qret.op = "enqueue" /\ qret.fault = "xadd") => qret.raised
    /\ (qret.op = "claim_next" /\ qret.fault = "read") => qret.raised

MarkOps ==
    {"checkpoint", "mark_started", "mark_completed", "mark_failed", "mark_recovered"}

\* the step being taken is a call of checkpoint or of a mark_* method
IsMarkStep == marks' = marks + 1 /\ qret'.op \in MarkOps

\* C16: checkpoint and the mark_* methods never raise; when the write of the
\* event fails they return normally and leave every event log and the
\* pending stream as they were; otherwise they append one event to the log of
\* the task.
C16_MarksNeverRaise ==
    [][IsMarkStep =>
         /\ ~qret'.raised
         /\ stream' = stream /\ pel' = pel /\ last_delivered' = last_delivered
         /\ qret'.fault = "log" => event_log' = event_log
         /\ qret'.fault = "none" =>
              /\ Len(event_log'[qret'.task_id]) = Len(event_log[qret'.task_id]) + 1
              /\ \A t \in DOMAIN event_log :
                   t # qret'.task_id => event_log'[t] = event_log[t]]_vars

\* mark_completed returned although its event could not be written
C16_Witness ==
    /\ qret.op = "mark_completed"
    /\ qret.fault = "log"
    /\ ~qret.raised
    /\ marks = 1
    /\ \A t \in DOMAIN event_log : \A i \in 1..Len(event_log[t]) :
         event_log[t][i].type # "completed"

\* worker w holds the claim on the entry of the task
HoldsClaim(w, task_id) ==
    \E e \in pel : e.consumer = w /\ EntryTask(e.message_id) = task_id

\* C17: a call of mark_started, checkpoint, mark_completed or mark_failed by
\* a worker that does not hold the claim on the task's entry appends nothing
\* to the task's event log.
C17_OnlyHolderAppends ==
    [][(IsMarkStep /\ qret'.op # "mark_recovered"
        /\ ~HoldsClaim(qret'.worker, qret'.task_id))
       => event_log' = event_log]_vars

\* C18: without a failure of the store, get_unfinished_tasks() returns one
\* projection for each entry that is pending (delivered and not acknowledged)
\* and whose replayed status is neither completed nor failed, however many
\* there are, and nothing else.
C18_UnfinishedExact ==
    (qret.op = "get_unfinished_tasks" /\ qret.fault = "none") =>
      LET want == {EntryTask(m) : m \in {n \in PelIds(pel) :
                      StatusOf(EntryTask(n)) \notin {"completed", "failed"}}}
      IN  /\ TaskIdsOf(qret.out) = want
          /\ Len(qret.out) = Cardinality(want)
          /\ \A i \in 1..Len(qret.out) :
               qret.out[i] = recover_state(event_log, qret.out[i].task_id, clock, FALSE)

\* C19: when the worker that claimed an entry has died without acknowledging
\* it and another worker lives and keeps calling claim_next, the entry is
\* eventually returned by claim_next to another worker.
C19_DeadWorkerTakenOver ==
    \A m \in 1..MaxTasks : \A w \in Workers :
      ([message_id |-> m, consumer |-> w] \in pel /\ w \notin alive /\ alive # {})
      ~> (\/ \E i \in 1..Len(deliveries) :
               deliveries[i].message_id = m /\ deliveries[i].worker # w
          \/ m \notin PelIds(pel)
          \/ alive = {})

C21_TimestampsRestored ==
    (qret.op = "recover_state" /\ qret.fault = "none") =>
    /\  LET s   == qret.out[1]
             log == event_log[qret.task_id]
         IN  /\ Len(s.events) = Len(log)
             /\ \A i \in 1..Len(log) :
                  /\ s.events[i].timestamp = log[i].timestamp
                  /\ log[i].type = "enqueued" => s.enqueued_at = log[i].timestamp
                  /\ log[i].type = "started" => s.started_at = log[i].timestamp
                  /\ log[i].type = "completed" => s.completed_at = log[i].timestamp
    /\ \A t \in DOMAIN event_log : \A i \in 1..Len(event_log[t]) :
         LET e == from_redis(event_log[t][i], clock)
         IN  /\ e.event_type = event_log[t][i].type
             /\ e.task_id = event_log[t][i].task_id
             /\ e.worker_id = event_log[t][i].worker
             /\ e.timestamp = event_log[t][i].timestamp

\* C22: every checkpoint call that returns a commit hash has added exactly
\* one commit on top of the HEAD it found, and the hash returned is that of
\* the new commit, also when no file changed since the previous checkpoint.
C22_CheckpointAddsOneVersion ==
    [][(gret'.op = "checkpoint" /\ gret'.hash # NoCommit) =>
         /\ Len(objects') = Len(objects) + 1
         /\ head' = Len(objects')
         /\ objects'[head'].parent = head
         /\ gret'.hash = head'
         /\ gret'.hash # head]_vars

\* C23: a rollback(n) that succeeds makes HEAD the commit n parents before
\* the HEAD it found and a rollback_to_commit(v) that succeeds makes HEAD v;
\* when the working directory was as the checkpoint of the old HEAD left it,
\* its content after the rollback is its content at the checkpoint of the
\* new HEAD.
C23_RollbackRestores ==
    [][(gret'.op \in {"rollback", "rollback_to_commit"} /\ gret'.ok) =>
         /\ head' = IF gret'.op = "rollback"
                    THEN Ancestor(objects, head, gret'.arg)
                    ELSE gret'.arg
         /\ (head # NoCommit /\ worktree = objects[head].seen)
              => worktree' = objects[head'].seen]_vars

\* the positions of the events of a type in the trace of run
EventsOf(type) == {i \in 1..Len(ltrace) : ltrace[i].type = type}

Appended == SubSeq(messages, base + 1, Len(messages))

\* C25: whenever run is about to call the model backend, the messages it has
\* appended to its message list are the last lines of the session file, in
\* the same order.
C25_PersistedBeforeModelCall ==
    (lpc = "chat" /\ in_range(round_num, max_rounds)) =>
      /\ Len(session) >= Len(Appended)
      /\ SubSeq(session, Len(session) - Len(Appended) + 1, Len(session)) = Appended

\* C26: a tool call whose name is not registered executes no tool and ends
\* the run neither by an exception nor by a return: run appends the tool
\* message for that call id, which says that the tool does not exist and
\* lists the tool names available, and goes on with the next tool call or
\* the next round.
C26_UnknownTool ==
    [][(lpc = "tools" /\ Head(pending).name \notin RegisteredTools) =>
         LET tc  == Head(pending)
             msg == messages'[Len(messages')]
         IN  /\ Len(messages') = Len(messages) + 1
             /\ msg.role = "tool"
             /\ msg.tool_call_id = tc.id
             /\ msg.name = tc.name
             /\ msg.content.kind = "unknown_tool"
             /\ msg.content.name = tc.name
             /\ msg.content.names \in {ManifestTools, RegisteredTools}
             /\ EventsOf("execute")' = EventsOf("execute")
             /\ ~lret'.done
             /\ pending' = Tail(pending)
             /\ lpc' = IF pending' = <<>> THEN "chat" ELSE "tools"]_vars

\* the unknown tool was answered and the known one of the same response is next
C26_Witness ==
    /\ lpc = "tools"
    /\ Len(pending) = 1
    /\ pending[1].name \in RegisteredTools
    /\ messages[Len(messages)].content.kind = "unknown_tool"
    /\ messages[Len(messages)].tool_call_id = "c1"
    /\ EventsOf("execute") = {}

\* the step in which run returns a final answer of the model
IsFinalStep == ~lret.done /\ lret'.done /\ ltrace'[Len(ltrace')].type = "response"

C28_ExecuteNeverRaises ==
    called =>
      /\ ~ret[1].raised
      /\ ret[1].tools = arg.tools
      /\ ret[1].text.kind =
           IF arg.name \notin arg.tools THEN "not_registered"
           ELSE IF arg.arguments # "match" THEN "bad_params"
           ELSE IF arg.outcome = "raises" THEN "tool_failed"
           ELSE "text"
      /\ arg.name \notin arg.tools => ret[1].text.names = arg.tools
      /\ ret[1].text.kind # "text" => ret[1].text.name = arg.name

\* a registered tool was called with arguments that do not fit
C28_Witness ==
    /\ called
    /\ arg.name \in arg.tools
    /\ arg.arguments = "mismatch"
    /\ ret[1].text.kind = "bad_params"
    /\ ~ret[1].raised

\* C30: in the message list every assistant message with n tool calls is
\* followed by the tool messages of its calls, in request order and with
\* their ids and names: all n of them once the round is over, and as many as
\* have been executed before; after them comes the next response.  In the
\* trace every tool_start is followed by its own tool_end before anything
\* else starts, and a model call comes only when no tool call is left.
C30_ToolResultsInOrder ==
    /\ \A p \in 1..Len(messages) :
         LET n == Len(messages[p].tool_calls)
         IN  n > 0 =>
               /\ messages[p].role = "assistant"
               /\ \A i \in 1..n :
                    p + i <= Len(messages) =>
                      /\ messages[p + i].role = "tool"
                      /\ messages[p + i].tool_call_id = messages[p].tool_calls[i].id
                      /\ messages[p + i].name = messages[p].tool_calls[i].function.name
               /\ p + n + 1 <= Len(messages) => messages[p + n + 1].role = "assistant"
               /\ p + n > Len(messages) =>
                    /\ lpc = "tools"
                    /\ Len(pending) = p + n - Len(messages)
    /\ \A q \in 1..Len(messages) :
         messages[q].role = "tool" =>
           \E p \in 1..(q - 1) :
             /\ Len(messages[p].tool_calls) >= q - p
             /\ \A k \in (p + 1)..q : messages[k].role = "tool"
    /\ \A i \in EventsOf("tool_start") :
         \E j \in {i + 1, i + 2} :
           /\ j <= Len(ltrace)
           /\ ltrace[j].type = "tool_end"
           /\ ltrace[j].id = ltrace[i].id
           /\ j = i + 2 => ltrace[i + 1].type = "execute" /\ ltrace[i + 1].id = ltrace[i].id
    /\ \A i \in EventsOf("chat") :
         i > 1 => ltrace[i - 1].type \in {"turn_start", "tool_end"}
    /\ lpc = "chat" => pending = <<>>

\* a response with two tool calls has been answered in full
C30_Witness ==
    /\ lpc = "chat"
    /\ Len(messages) >= 3
    /\ Len(messages[Len(messages) - 2].tool_calls) = 2
    /\ messages[Len(messages) - 1].tool_call_id = "c1"
    /\ messages[Len(messages)].tool_call_id = "c2"
    /\ messages[Len(messages) - 1].name # messages[Len(messages)].name

\* C29: in every state of every run of execute the recovery-attempt counter
\* of the task is at most max_recoveries.
C29_RecoveryCounterBounded ==
    ctx.recovery_attempts \in 0..max_recoveries

\* a run whose result failed verification went through recovery
C29_Witness ==
    /\ pc = "done"
    /\ ctx.recovery_attempts = 1
    /\ TimesEntered(RECOVERING) = 1

\* the types of the events logged for task t, in log order
EventTypes(t) == [i \in 1..Len(event_log[t]) |-> event_log[t][i].type]

\* C31: under any interleaving of enqueue with claim_next and mark_*, the
\* "enqueued" event of a task is the first event of its log, so that the
\* replay of a claimed task's log does not end in status "pending".
C31_EnqueuedFirst ==
    \A t \in 1..Len(event_log) :
        /\ (\E i \in 1..Len(event_log[t]) : EventTypes(t)[i] = "enqueued")
              => EventTypes(t)[1] = "enqueued"
        /\ (\E i \in 1..Len(event_log[t]) : EventTypes(t)[i] = "claimed")
              => recover_state(event_log, t, clock, FALSE).status # "pending"

\* the status an event of this type gives the projection; "" when it gives none
StatusGiven(event_type) ==
    CASE event_type = "enqueued" -> "pending"
      [] event_type = "claimed" -> "claimed"
      [] event_type \in {"started", "progressed", "recovered"} -> "processing"
      [] event_type = "completed" -> "completed"
      [] event_type = "failed" -> "failed"
      [] OTHER -> ""

\* the positions of the events that give a status
StatusEvents(events) ==
    {i \in 1..Len(events) : StatusGiven(events[i].event_type) # ""}

IsCheckpointEvent(e) == e.event_type = "checkpoint"

\* C32: the status of the replayed projection is the one given by the last
\* event of a status-giving type (enqueued, claimed, started, progressed,
\* recovered, completed, failed), "unknown" when there is none; checkpoint
\* events and events of unknown type give no status; checkpoints has one
\* element per checkpoint event, in log order, and events is the input list.
C32_StatusByLastEvent ==
    Len(ret) >= 1 =>
        LET events == arg.events
            cps    == SelectSeq(events, IsCheckpointEvent)
            state  == ret[1]
        IN  /\ state.status =
                 IF StatusEvents(events) = {} THEN "unknown"
                 ELSE StatusGiven(events[CHOOSE i \in StatusEvents(events) :
                                    \A j \in StatusEvents(events) : j <= i].event_type)
            /\ Len(state.checkpoints) = Len(cps)
            /\ \A i \in 1..Len(cps) :
                 /\ state.checkpoints[i].step = cps[i].data.step
                 /\ state.checkpoints[i].timestamp = cps[i].timestamp
            /\ state.events = events

\* a log that ends in a checkpoint and an event of unknown type was replayed:
\* the status is that of the event before them
C32_Witness ==
    /\ Len(ret) >= 1
    /\ Len(arg.events) = MaxEvents
    /\ arg.events[1].event_type = "started"
    /\ arg.events[2].event_type = "checkpoint"
    /\ arg.events[3].event_type = "archived"
    /\ ret[1].status = "processing"
    /\ Len(ret[1].checkpoints) = 1

\* the error indicators found in a text, whatever its case
IndicatorsIn(text) == {s \in error_indicators : Contains(Lower(text), s)}

\* C33: the verification check passes exactly when the result is non-empty
\* after stripping, holds fewer than 3 distinct error indicators and its
\* stripped length is at least 20; of the failing conditions, tested in that
\* order, the first that holds gives the reason; the check leaves the task's
\* context as it was.
C33_VerifyOutput ==
    /\ [](called =>
           LET empty    == Strip(arg) = <<>>
               errors   == Cardinality(IndicatorsIn(arg)) >= 3
               short    == Len(Strip(arg)) < 20
           IN  /\ ret.passed <=> ~empty /\ ~errors /\ ~short
               /\ empty => ret.reason = TxtResultadoVazio
               /\ ~empty /\ errors => ret.reason = TxtMultiplosErros
               /\ ~empty /\ ~errors /\ short => ret.reason = TxtMuitoCurto)
    /\ [][ctx' = ctx]_vars

\* a result of 20 characters or more between blanks whose stripped length is
\* below 20 was checked, and found too short
C33_Witness ==
    /\ called
    /\ Len(arg) >= 20
    /\ Strip(arg) = PartReport
    /\ ~ret.passed
    /\ ret.reason = TxtMuitoCurto

\* the commits of the history that carry a tag
Tagged(history) == {i \in 1..Len(history) : history[i].tag # None}

\* C34: on a verification failure the task goes from Verifying to RollingBack
\* to Recovering; in RollingBack exactly one rollback removes exactly one
\* checkpoint; no tagged checkpoint is created for the failed result, and a
\* tagged checkpoint exists only in a run that reached Completed.
C34_VerificationFailure ==
    /\ [][pc = "failed_verification" /\ pc' # pc =>
            /\ ctx.state = VERIFYING
            /\ pc' = "rolled_back"
            /\ ctx'.state = ROLLING_BACK
            /\ Len(commits) >= 2
            /\ commits' = SubSeq(commits, 1, Len(commits) - 1)
            /\ Len(SelectSeq(trace', IsRollbackEv)) =
                 Len(SelectSeq(trace, IsRollbackEv)) + 1]_vars
    /\ [][pc = "rolled_back" /\ pc' # pc =>
            /\ ctx'.state = RECOVERING
            /\ commits' = commits]_vars
    /\ [](Tagged(commits) # {} => ctx.state = COMPLETED)

\* the rollbacks of the running execute that failed for lack of history
IsFailedRollbackEv(e) == e.ev = "rollback" /\ e.s = "failed"

\* the Planning checkpoint of the running execute has been created
IsPlanCheckpointEv(e) == e.ev = "checkpoint" /\ e.s = "plano"

\* C35: no rollback issued by execute fails for lack of history, and once the
\* Analysis and Planning checkpoints exist they stay in the history, whatever
\* failures follow in the run.
C35_RollbackKeepsPhaseCheckpoints ==
    /\ SelectSeq(trace, IsFailedRollbackEv) = <<>>
    /\ SelectSeq(trace, IsPlanCheckpointEv) # <<>> =>
         /\ Len(commits) >= 3
         /\ commits[2].message = "Analise concluida - spec gerada"
         /\ commits[3].message = "Plano de execucao definido"

\* the severities of the error texts the executor meets in its runs
SeveritiesMet ==
    {classify_error(e) : e \in DelegateErrors \cup {ErrNoAgents, ErrPlanner}}

\* the step being taken is an attempt of the loop that invokes the delegate
InvokesDelegate == SelectSeq(NewEvents, IsDelegateEv) # <<>>

\* the step being taken is an attempt in which get_team raises
TeamNotBuilt == NewEvents[1].ev = "get_team" /\ NewEvents[1].s = "failed"

\* C36 as stated: classify_error never answers Critical, the Critical branch
\* of the loop is never taken, and every attempt after a failed one invokes
\* the delegate.
C36_NeverCritical ==
    /\ [](CRITICAL \notin SeveritiesMet /\ ctx.last_severity # CRITICAL)
    /\ [][AttemptFails /\ attempt < max_recoveries =>
            pc' = "attempt" /\ attempt' = attempt + 1]_vars
    /\ [][pc = "attempt" /\ attempt > 1 => InvokesDelegate]_vars

\* C36, amended: classify_error never answers Critical, the Critical branch of
\* the loop is never taken, and every failed attempt other than the last is
\* followed by another attempt, which invokes the delegate unless get_team
\* raises first.
C36_NeverCriticalNextAttempt ==
    /\ [](CRITICAL \notin SeveritiesMet /\ ctx.last_severity # CRITICAL)
    /\ [][AttemptFails /\ attempt < max_recoveries =>
            pc' = "attempt" /\ attempt' = attempt + 1]_vars
    /\ [][pc = "attempt" /\ attempt > 1 => InvokesDelegate \/ TeamNotBuilt]_vars

\* the second attempt failed in get_team after a Severe failure of the first,
\* and the loop went on to its third attempt
C36_Witness ==
    /\ pc = "attempt"
    /\ attempt = 3
    /\ last_error = ErrNoAgents
    /\ Len(DelegateEvents) = 1
    /\ Len(SelectSeq(trace, IsRollbackEv)) = 1

\* the state the next transition call of the running execute asks for; "" when
\* the next step makes no transition call
NextTarget ==
    CASE pc = "analyzing" -> ANALYZING
      [] pc = "planning" -> PLANNING
      [] pc = "executing" -> EXECUTING
      [] pc = "verifying" -> VERIFYING
      [] pc = "passed" -> COMPLETED
      [] pc = "failed_verification" -> ROLLING_BACK
      [] pc = "rolled_back" -> RECOVERING
      [] pc = "replan" -> IF ctx.recovery_attempts + 1 > max_recoveries
                          THEN ESCALATED ELSE PLANNING
      [] OTHER -> ""

\* C37: every transition call made by execute and _recover_and_replan is an
\* edge of the table in the state in which it is made; InvalidTransition is
\* never raised and the handler's message is never returned.
C37_NoInvalidTransition ==
    /\ NextTarget # "" => NextTarget \in VALID_TRANSITIONS(ctx.state)
    /\ returned # None => ~IsPrefixOf(TxtErroInterno, returned)
    /\ raised = None

\* the re-planned run failed verification again and is about to go from
\* RollingBack to Recovering
C37_Witness ==
    /\ pc = "rolled_back"
    /\ frame = "replan"
    /\ ctx.state = ROLLING_BACK
    /\ ctx.recovery_attempts = 1

\* C38: when execute returns with the task Completed, the context's
\* final_output is the text returned, on the first-pass path and on the path
\* that completes after a re-plan.
C38_FinalOutputIsReturned ==
    pc = "done" /\ ctx.state = COMPLETED => ctx.final_output = returned

\* the position in the trace where the current call of
\* _execute_with_recovery began
CallStart ==
    IF frame = "execute" THEN 0
    ELSE LET cps == {i \in 1..Len(trace) :
                       trace[i].ev = "checkpoint" /\ trace[i].s = "replano"}
         IN  IF cps = {} THEN Len(trace) ELSE CHOOSE i \in cps : TRUE

\* the delegate invocations of the current call of _execute_with_recovery
DelegateEventsOfCall ==
    SelectSeq(SubSeq(trace, CallStart + 1, Len(trace)), IsDelegateEv)

\* C39: every run of execute ends after a bounded amount of work: each step of
\* a run makes a new call of a collaborator or ends the run, and the calls are
\* bounded; _recover_and_replan is entered at most once, each call of
\* _execute_with_recovery invokes the delegate at most max_recoveries times,
\* hence the delegate is invoked at most 2 * max_recoveries times, and the
\* planning collaborator at most twice.
C39_BoundedWork ==
    /\ [](/\ ctx.recovery_attempts <= 1
          /\ Len(SelectSeq(trace, IsTransitionEv)) <= 11
          /\ attempt <= max_recoveries
          /\ Len(DelegateEventsOfCall) <= max_recoveries
          /\ Len(DelegateEvents) <= 2 * max_recoveries
          /\ Len(SelectSeq(trace, IsPlanEv)) <= 2
          /\ Len(trace) <= 10 * max_recoveries + 18)
    /\ [][InExecute => Len(trace') > Len(trace) \/ pc' = "done"]_vars

\* a run in which the delegate was invoked 2 * max_recoveries times and the
\* planning collaborator twice
C39_Witness ==
    /\ pc = "done"
    /\ frame = "replan"
    /\ Len(DelegateEvents) = 2 * max_recoveries
    /\ Len(SelectSeq(trace, IsPlanEv)) = 2

\* C40: a construction of FrozenManifest either raises or returns a loaded,
\* frozen instance, also after an earlier construction failed because the
\* file was missing; on a loaded instance every assignment and deletion of an
\* attribute raises ImmutableError and leaves the loaded data as it was.
C40_LoadedOrRaises ==
    /\ [](mret.op = "construct" /\ mret.returned =>
            manifest._frozen /\ manifest._data # Unset)
    /\ [][manifest._frozen /\ mret'.op \in {"setattr", "delattr"} =>
            mret'.raised = "ImmutableError" /\ manifest' = manifest]_vars
====
